---- MODULE Spec2Model ----
(***************************************************************************)
(* Shortest-path visualizer: the grid model and its four shortest-path     *)
(* algorithms (Dijkstra, A*, Bellman-Ford, Floyd-Warshall), and the node   *)
(* graph model with its three path searches (BFS, DFS, Dijkstra).          *)
(*                                                                         *)
(* A cell is a record [r, c]; JavaScript's null is the record `null`.      *)
(* Every algorithm is an operator computed the way the code computes it;   *)
(* its value is the returned object plus two observations of the call:     *)
(* `status` (returned, threw a TypeError, or never left a loop) and        *)
(* `isWallCalls` (how many times model.isWall was called).                 *)
(***************************************************************************)
EXTENDS Integers, Sequences, FiniteSets, TLC

\* ---------------------------------------------------------------- bounds
MaxRows == 2
MaxCols == 3
MaxNodes == 3
MaxEdges == 3
HeavyW == 5

\* The playback model: the grid is CtlN x CtlN at most, the speed slider
\* offers 1..MaxSpeed time units per step, a frame comes 1..MaxFrame units
\* after the one before, the algorithm invocations between two resets are
\* counted up to MaxCalls, at most MaxChains frames wait for the node view,
\* its graph has at most CtlNodes nodes and CtlEdges edges, and a segment of
\* its animation takes SegFrames frames.
CtlN == 2
MaxSpeed == 2
MaxFrame == 2
MaxCalls == 2
MaxChains == 2
CtlNodes == 2
CtlEdges == 2
SegFrames == 2

\* ------------------------------------------------------------- constants
INF == 1000000000
DefaultW == 1

null == [r |-> -1, c |-> -1]

\* The value a walk gives when it never ends.
HUNG == << [r |-> -2, c |-> -2] >>

\* The same for a list of branches.
HUNGS == << HUNG >>

DIRS == << <<1, 0>>, <<-1, 0>>, <<0, 1>>, <<0, -1>> >>

GRID_ALGS == {"dijkstra", "astar", "bellmanFord", "floydWarshall"}

\* ------------------------------------------------------------- utilities
RECURSIVE Reverse(_)
Reverse(s) == IF s = <<>> THEN <<>> ELSE Append(Reverse(Tail(s)), Head(s))

Abs(x) == IF x < 0 THEN -x ELSE x

Range(s) == {s[i] : i \in 1..Len(s)}

Cell(r, c) == [r |-> r, c |-> c]

CellsOf(rows, cols) == {Cell(r, c) : r \in 0..(rows - 1), c \in 0..(cols - 1)}

InBounds(m, r, c) == ~(r < 0 \/ r >= m.rows \/ c < 0 \/ c >= m.cols)

\* ------------------------------------------------------------- GridModel
\* The application holds one model at a time: a GridModel when visual is
\* "maze", a NodeModel when it is "nodes". `ret` is what the last call of an
\* algorithm gave for the model as it is now.
VARIABLES visual, rows, cols, walls, start, end,
          nodes, counter, edges, nodeStart, goal, ret,
          anim, rafQueue, nodeAnim, nodeRaf, calls, elapsed, pos0, oldFrames, frozen

gridVars == <<rows, cols, walls, start, end>>

nodeVars == <<nodes, counter, edges, nodeStart, goal>>

\* The playback state of the application: animRef.current and the animation
\* frame callbacks waiting for it, NodeView.anim and the frames waiting for
\* the view's _tick, and five records of what has happened: the algorithm
\* invocations since the last reset or edit, the time handed to tick since
\* the clock was started, the cursor at which it was started (NoPos once a
\* button or an edit has come between), how many of the frames waiting for
\* the node view were requested before the last Reset, and the cursors as
\* they were when Pause was last pressed on a playing animation (NoPos once
\* Play, Step, Reset or a clearing edit has followed).
ctlVars == <<anim, rafQueue, nodeAnim, nodeRaf, calls, elapsed, pos0, oldFrames, frozen>>

vars == <<visual, rows, cols, walls, start, end,
          nodes, counter, edges, nodeStart, goal, ret,
          anim, rafQueue, nodeAnim, nodeRaf, calls, elapsed, pos0, oldFrames, frozen>>

\* The model object handed to an algorithm.
GridSnapshot == [rows |-> rows, cols |-> cols, walls |-> walls,
                 start |-> start, end |-> end]

\* The key built as `${c},${r}`.
isWallSwapped(m, r, c) == Cell(c, r) \in m.walls

isWall(m, r, c) == Cell(r, c) \in m.walls

\* What a call gave: the returned {path, branches} and how the call went.
Returned(path, branches, reads) ==
  [status |-> "returned", path |-> path, branches |-> branches, isWallCalls |-> reads]

Threw(reads) ==
  [status |-> "threw", path |-> <<>>, branches |-> <<>>, isWallCalls |-> reads]

Hung(reads) ==
  [status |-> "hung", path |-> <<>>, branches |-> <<>>, isWallCalls |-> reads]

\* for (cur = from; cur; cur = prev[cur.r][cur.c]) path.push(cur)
\* The loop has no bound of its own: a cycle of predecessors never ends,
\* which the walk reports as HUNG once it has made more steps than there
\* are cells.
RECURSIVE PrevWalk(_, _, _, _)
PrevWalk(prev, cur, acc, fuel) ==
  IF cur = null THEN acc
  ELSE IF fuel = 0 THEN HUNG
  ELSE PrevWalk(prev, prev[cur], Append(acc, cur), fuel - 1)

\* for (cur = node; cur; cur = prev[..]) { branch.push(cur); if (cur is start) break }
RECURSIVE BranchWalk(_, _, _, _, _)
BranchWalk(prev, s, cur, acc, fuel) ==
  IF cur = null THEN acc
  ELSE IF fuel = 0 THEN HUNG
  ELSE IF cur = s THEN Append(acc, cur)
  ELSE BranchWalk(prev, s, prev[cur], Append(acc, cur), fuel - 1)

\* Without branch.reverse().
RECURSIVE PrevBranchesNoReverse(_, _, _, _, _, _)
PrevBranchesNoReverse(prev, s, list, shortest, i, acc) ==
  IF i > Len(list) THEN acc
  ELSE IF list[i] \in Range(shortest)
    THEN PrevBranchesNoReverse(prev, s, list, shortest, i + 1, acc)
  ELSE LET branch == BranchWalk(prev, s, list[i], <<>>, Len(list) + Len(shortest) + 1)
       IN IF branch = HUNG THEN HUNGS
          ELSE PrevBranchesNoReverse(prev, s, list, shortest, i + 1, Append(acc, branch))

\* The branch loop shared by Dijkstra, A* and Bellman-Ford: one branch per
\* listed node that is off the shortest path, in list order. A chain of
\* predecessors without a cycle has at most one cell per listed node, plus
\* start: a longer walk is one that never ends.
RECURSIVE PrevBranches(_, _, _, _, _, _)
PrevBranches(prev, s, list, shortest, i, acc) ==
  IF i > Len(list) THEN acc
  ELSE IF list[i] \in Range(shortest)
    THEN PrevBranches(prev, s, list, shortest, i + 1, acc)
  ELSE LET branch == BranchWalk(prev, s, list[i], <<>>, Len(list) + Len(shortest) + 1)
       IN IF branch = HUNG THEN HUNGS
          ELSE PrevBranches(prev, s, list, shortest, i + 1, Append(acc, Reverse(branch)))

\* Without the test for an unreached end.
PrevResultUnchecked(m, dist, prev, list, reads) ==
  LET path == PrevWalk(prev, m.end, <<>>, m.rows * m.cols + 1)
  IN IF path = HUNG THEN Hung(reads)
     ELSE LET shortest == Reverse(path)
              branches == PrevBranches(prev, m.start, list, shortest, 1, <<>>)
          IN IF branches = HUNGS THEN Hung(reads)
             ELSE Returned(shortest, branches, reads)

\* Lines 34-51 of dijShortestPath, the same in A* and Bellman-Ford.
PrevResult(m, dist, prev, list, reads) ==
  IF dist[m.end] = INF THEN Returned(<<>>, <<>>, reads)
  ELSE LET path == PrevWalk(prev, m.end, <<>>, m.rows * m.cols + 1)
       IN IF path = HUNG THEN Hung(reads)
          ELSE LET shortest == Reverse(path)
                   branches == PrevBranches(prev, m.start, list, shortest, 1, <<>>)
               IN IF branches = HUNGS THEN Hung(reads)
                  ELSE Returned(shortest, branches, reads)

\* -------------------------------------------------------------- Dijkstra
\* The comparator written the other way round, b.d - a.d.
DijInsertDescending(acc, x) ==
  LET later == {j \in 1..Len(acc) : acc[j].d < x.d}
      k == IF later = {} THEN Len(acc) + 1
           ELSE CHOOSE j \in later : \A j2 \in later : j <= j2
  IN SubSeq(acc, 1, k - 1) \o <<x>> \o SubSeq(acc, k, Len(acc))

\* pq.sort((a,b) => a.d - b.d): Array.prototype.sort is stable.
DijInsert(acc, x) ==
  LET later == {j \in 1..Len(acc) : acc[j].d > x.d}
      k == IF later = {} THEN Len(acc) + 1
           ELSE CHOOSE j \in later : \A j2 \in later : j <= j2
  IN SubSeq(acc, 1, k - 1) \o <<x>> \o SubSeq(acc, k, Len(acc))

RECURSIVE DijSort(_, _, _)
DijSort(pq, i, acc) ==
  IF i > Len(pq) THEN acc ELSE DijSort(pq, i + 1, DijInsert(acc, pq[i]))

RECURSIVE DijRelax(_, _, _, _, _, _)
DijRelax(m, st, r, c, d, i) ==
  IF i > Len(DIRS) THEN st
  ELSE LET nr == r + DIRS[i][1]
           nc == c + DIRS[i][2]
           nd == d + 1
       IN IF ~InBounds(m, nr, nc) THEN DijRelax(m, st, r, c, d, i + 1)
          ELSE LET st1 == [st EXCEPT !.reads = @ + 1]
               IN IF isWall(m, nr, nc) THEN DijRelax(m, st1, r, c, d, i + 1)
                  ELSE IF nd < st.dist[Cell(nr, nc)]
                    THEN DijRelax(m,
                           [st1 EXCEPT !.dist[Cell(nr, nc)] = nd,
                                       !.prev[Cell(nr, nc)] = Cell(r, c),
                                       !.pq = Append(@, [r |-> nr, c |-> nc, d |-> nd])],
                           r, c, d, i + 1)
                  ELSE DijRelax(m, st1, r, c, d, i + 1)

\* Without the break when the end cell is popped.
RECURSIVE DijLoopNoBreak(_, _)
DijLoopNoBreak(m, st) ==
  IF st.pq = <<>> THEN st
  ELSE LET sorted == DijSort(st.pq, 1, <<>>)
           top == Head(sorted)
           st1 == [st EXCEPT !.pq = Tail(sorted),
                             !.popped = Append(@, Cell(top.r, top.c))]
       IN DijLoopNoBreak(m, DijRelax(m, st1, top.r, top.c, top.d, 1))

RECURSIVE DijLoop(_, _)
DijLoop(m, st) ==
  IF st.pq = <<>> THEN st
  ELSE LET sorted == DijSort(st.pq, 1, <<>>)
           top == Head(sorted)
           st1 == [st EXCEPT !.pq = Tail(sorted),
                             !.popped = Append(@, Cell(top.r, top.c))]
       IN IF top.r = m.end.r /\ top.c = m.end.c THEN st1
          ELSE DijLoop(m, DijRelax(m, st1, top.r, top.c, top.d, 1))

DijInit(m) ==
  [dist |-> [x \in CellsOf(m.rows, m.cols) |-> IF x = m.start THEN 0 ELSE INF],
   prev |-> [x \in CellsOf(m.rows, m.cols) |-> null],
   pq |-> << [r |-> m.start.r, c |-> m.start.c, d |-> 0] >>,
   popped |-> <<>>,
   reads |-> 0]

dijShortestPath(m) ==
  IF m.start = null \/ m.end = null THEN Returned(<<>>, <<>>, 0)
  ELSE LET st == DijLoop(m, DijInit(m))
       IN PrevResult(m, st.dist, st.prev, st.popped, st.reads)

\* -------------------------------------------------------------------- A*
h(m, r, c) == Abs(r - m.end.r) + Abs(c - m.end.c)

\* pq.sort((a,b) => (a.f === b.f ? a.g - b.g : a.f - b.f)), stable.
AStarAfter(a, b) == IF a.f = b.f THEN a.g - b.g > 0 ELSE a.f - b.f > 0

AStarInsert(acc, x) ==
  LET later == {j \in 1..Len(acc) : AStarAfter(acc[j], x)}
      k == IF later = {} THEN Len(acc) + 1
           ELSE CHOOSE j \in later : \A j2 \in later : j <= j2
  IN SubSeq(acc, 1, k - 1) \o <<x>> \o SubSeq(acc, k, Len(acc))

RECURSIVE AStarSort(_, _, _)
AStarSort(pq, i, acc) ==
  IF i > Len(pq) THEN acc ELSE AStarSort(pq, i + 1, AStarInsert(acc, pq[i]))

\* The relaxation with <= for <: a cell reached again at the same cost is
\* pushed again.
RECURSIVE AStarRelaxOrEqual(_, _, _, _, _, _)
AStarRelaxOrEqual(m, st, r, c, gCur, i) ==
  IF i > Len(DIRS) THEN st
  ELSE LET nr == r + DIRS[i][1]
           nc == c + DIRS[i][2]
           tentativeG == gCur + 1
       IN IF ~InBounds(m, nr, nc) THEN AStarRelaxOrEqual(m, st, r, c, gCur, i + 1)
          ELSE LET st1 == [st EXCEPT !.reads = @ + 1]
               IN IF isWall(m, nr, nc) THEN AStarRelaxOrEqual(m, st1, r, c, gCur, i + 1)
                  ELSE IF tentativeG <= st.g[Cell(nr, nc)]
                    THEN AStarRelaxOrEqual(m,
                           [st1 EXCEPT !.g[Cell(nr, nc)] = tentativeG,
                                       !.f[Cell(nr, nc)] = tentativeG + h(m, nr, nc),
                                       !.prev[Cell(nr, nc)] = Cell(r, c),
                                       !.pq = Append(@, [r |-> nr, c |-> nc,
                                                         f |-> tentativeG + h(m, nr, nc),
                                                         g |-> tentativeG])],
                           r, c, gCur, i + 1)
                  ELSE AStarRelaxOrEqual(m, st1, r, c, gCur, i + 1)

RECURSIVE AStarRelax(_, _, _, _, _, _)
AStarRelax(m, st, r, c, gCur, i) ==
  IF i > Len(DIRS) THEN st
  ELSE LET nr == r + DIRS[i][1]
           nc == c + DIRS[i][2]
           tentativeG == gCur + 1
       IN IF ~InBounds(m, nr, nc) THEN AStarRelax(m, st, r, c, gCur, i + 1)
          ELSE LET st1 == [st EXCEPT !.reads = @ + 1]
               IN IF isWall(m, nr, nc) THEN AStarRelax(m, st1, r, c, gCur, i + 1)
                  ELSE IF tentativeG < st.g[Cell(nr, nc)]
                    THEN AStarRelax(m,
                           [st1 EXCEPT !.g[Cell(nr, nc)] = tentativeG,
                                       !.f[Cell(nr, nc)] = tentativeG + h(m, nr, nc),
                                       !.prev[Cell(nr, nc)] = Cell(r, c),
                                       !.pq = Append(@, [r |-> nr, c |-> nc,
                                                         f |-> tentativeG + h(m, nr, nc),
                                                         g |-> tentativeG])],
                           r, c, gCur, i + 1)
                  ELSE AStarRelax(m, st1, r, c, gCur, i + 1)

RECURSIVE AStarLoop(_, _)
AStarLoop(m, st) ==
  IF st.pq = <<>> THEN st
  ELSE LET sorted == AStarSort(st.pq, 1, <<>>)
           top == Head(sorted)
           st1 == [st EXCEPT !.pq = Tail(sorted),
                             !.popped = Append(@, Cell(top.r, top.c))]
       IN IF top.r = m.end.r /\ top.c = m.end.c THEN st1
          ELSE AStarLoop(m, AStarRelax(m, st1, top.r, top.c, top.g, 1))

AStarInit(m) ==
  [g |-> [x \in CellsOf(m.rows, m.cols) |-> IF x = m.start THEN 0 ELSE INF],
   f |-> [x \in CellsOf(m.rows, m.cols) |->
            IF x = m.start THEN h(m, m.start.r, m.start.c) ELSE INF],
   prev |-> [x \in CellsOf(m.rows, m.cols) |-> null],
   pq |-> << [r |-> m.start.r, c |-> m.start.c,
              f |-> h(m, m.start.r, m.start.c), g |-> 0] >>,
   popped |-> <<>>,
   reads |-> 0]

aStarShortestPath(m) ==
  IF m.start = null \/ m.end = null THEN Returned(<<>>, <<>>, 0)
  ELSE LET st == AStarLoop(m, AStarInit(m))
       IN PrevResult(m, st.g, st.prev, st.popped, st.reads)

\* ---------------------------------------------------------- Bellman-Ford
RECURSIVE BFRelax(_, _, _, _, _, _)
BFRelax(m, st, r, c, dHere, i) ==
  IF i > Len(DIRS) THEN st
  ELSE LET nr == r + DIRS[i][1]
           nc == c + DIRS[i][2]
           nd == dHere + 1
       IN IF ~InBounds(m, nr, nc) THEN BFRelax(m, st, r, c, dHere, i + 1)
          ELSE LET st1 == [st EXCEPT !.reads = @ + 1]
               IN IF isWall(m, nr, nc) THEN BFRelax(m, st1, r, c, dHere, i + 1)
                  ELSE IF nd < st.dist[Cell(nr, nc)]
                    THEN BFRelax(m,
                           [st1 EXCEPT !.visitedOrder =
                                          IF st.seen[Cell(nr, nc)] THEN @
                                          ELSE Append(@, Cell(nr, nc)),
                                       !.seen[Cell(nr, nc)] = TRUE,
                                       !.dist[Cell(nr, nc)] = nd,
                                       !.prev[Cell(nr, nc)] = Cell(r, c),
                                       !.anyChange = TRUE],
                           r, c, dHere, i + 1)
                  ELSE BFRelax(m, st1, r, c, dHere, i + 1)

\* One sweep: the cells in row-major order, v = r * cols + c.
RECURSIVE BFSweep(_, _, _)
BFSweep(m, st, v) ==
  IF v >= m.rows * m.cols THEN st
  ELSE LET r == v \div m.cols
           c == v % m.cols
           dHere == st.dist[Cell(r, c)]
       IN IF dHere = INF THEN BFSweep(m, st, v + 1)
          ELSE BFSweep(m, BFRelax(m, st, r, c, dHere, 1), v + 1)

\* A single sweep instead of up to V - 1.
BFIterateOnce(m, st, iter) ==
  IF ~(iter < m.rows * m.cols - 1) THEN st
  ELSE BFSweep(m, [st EXCEPT !.anyChange = FALSE], 0)

RECURSIVE BFIterate(_, _, _)
BFIterate(m, st, iter) ==
  IF ~(iter < m.rows * m.cols - 1) THEN st
  ELSE LET st1 == BFSweep(m, [st EXCEPT !.anyChange = FALSE], 0)
       IN IF ~st1.anyChange THEN st1 ELSE BFIterate(m, st1, iter + 1)

BFInit(m) ==
  [dist |-> [x \in CellsOf(m.rows, m.cols) |-> IF x = m.start THEN 0 ELSE INF],
   prev |-> [x \in CellsOf(m.rows, m.cols) |-> null],
   visitedOrder |-> <<>>,
   seen |-> [x \in CellsOf(m.rows, m.cols) |-> x = m.start],
   anyChange |-> FALSE,
   reads |-> 0]

bellmanFordShortestPath(m) ==
  IF m.start = null \/ m.end = null THEN Returned(<<>>, <<>>, 0)
  ELSE LET st == BFIterate(m, BFInit(m), 0)
       IN PrevResult(m, st.dist, st.prev, st.visitedOrder, st.reads)

\* -------------------------------------------------------- Floyd-Warshall
\* Vertices are numbers 0..V-1; a null next-hop is NONE.
NONE == -1

idx(m, r, c) == r * m.cols + c

rc(m, v) == Cell(v \div m.cols, v % m.cols)

\* !u in JavaScript: true of null and of the number 0.
Falsy(u) == u = NONE \/ u = 0

\* Without the isWall test on the neighbour.
FWEdgeNoWall(m, v, u) ==
  \E i \in 1..Len(DIRS) :
    LET nr == rc(m, v).r + DIRS[i][1]
        nc == rc(m, v).c + DIRS[i][2]
    IN InBounds(m, nr, nc) /\ u = idx(m, nr, nc)

\* Lines 15-29: dist[v][v] = 0, next[v][v] = v, and for every in-bounds
\* neighbour u of v that is not a wall dist[v][u] = 1, next[v][u] = u.
FWEdge(m, v, u) ==
  \E i \in 1..Len(DIRS) :
    LET nr == rc(m, v).r + DIRS[i][1]
        nc == rc(m, v).c + DIRS[i][2]
    IN InBounds(m, nr, nc) /\ ~isWall(m, nr, nc) /\ u = idx(m, nr, nc)

FWInitReads(m) ==
  Cardinality({p \in (0..(m.rows * m.cols - 1)) \X (1..Len(DIRS)) :
                 InBounds(m, rc(m, p[1]).r + DIRS[p[2]][1], rc(m, p[1]).c + DIRS[p[2]][2])})

FWInit(m) ==
  LET V == m.rows * m.cols
  IN [dist |-> [v \in 0..(V - 1), u \in 0..(V - 1) |->
                  IF v = u THEN 0 ELSE IF FWEdge(m, v, u) THEN 1 ELSE INF],
      next |-> [v \in 0..(V - 1), u \in 0..(V - 1) |->
                  IF v = u THEN v ELSE IF FWEdge(m, v, u) THEN u ELSE NONE],
      improved |-> <<>>,
      reads |-> FWInitReads(m)]

RECURSIVE FWInner(_, _, _, _, _, _)
FWInner(m, st, k, i, dik, j) ==
  IF j >= m.rows * m.cols THEN st
  ELSE LET alt == dik + st.dist[k, j]
       IN IF alt < st.dist[i, j]
            THEN FWInner(m,
                   [st EXCEPT !.dist[i, j] = alt,
                              !.next[i, j] = st.next[i, k],
                              !.improved = IF i = idx(m, m.start.r, m.start.c)
                                             THEN Append(@, j) ELSE @],
                   k, i, dik, j + 1)
          ELSE FWInner(m, st, k, i, dik, j + 1)

RECURSIVE FWMiddle(_, _, _, _)
FWMiddle(m, st, k, i) ==
  IF i >= m.rows * m.cols THEN st
  ELSE LET dik == st.dist[i, k]
       IN IF dik = INF THEN FWMiddle(m, st, k, i + 1)
          ELSE FWMiddle(m, FWInner(m, st, k, i, dik, 0), k, i + 1)

RECURSIVE FWOuter(_, _, _)
FWOuter(m, st, k) ==
  IF k >= m.rows * m.cols THEN st ELSE FWOuter(m, FWMiddle(m, st, k, 0), k + 1)

\* while (v !== null && v !== endV) { path.push(rc(v)); v = next[v][endV] }
RECURSIVE FWPathWalk(_, _, _, _, _, _)
FWPathWalk(m, next, v, endV, acc, fuel) ==
  IF v = NONE \/ v = endV THEN Append(acc, rc(m, endV))
  ELSE IF fuel = 0 THEN HUNG
  ELSE FWPathWalk(m, next, next[v, endV], endV, Append(acc, rc(m, v)), fuel - 1)

\* while (u !== null && u !== j) { branch.push(rc(u)); u = next[u][j]; if (!u) break }
RECURSIVE FWBranchWalk(_, _, _, _, _, _)
FWBranchWalk(m, next, u, j, acc, fuel) ==
  IF u = NONE \/ u = j THEN Append(acc, rc(m, j))
  ELSE IF fuel = 0 THEN HUNG
  ELSE IF Falsy(next[u, j]) THEN Append(Append(acc, rc(m, u)), rc(m, j))
  ELSE FWBranchWalk(m, next, next[u, j], j, Append(acc, rc(m, u)), fuel - 1)

RECURSIVE FWBranches(_, _, _, _, _, _)
FWBranches(m, next, improved, path, i, acc) ==
  IF i > Len(improved) THEN acc
  ELSE IF rc(m, improved[i]) \in Range(path)
    THEN FWBranches(m, next, improved, path, i + 1, acc)
  ELSE LET branch == FWBranchWalk(m, next, idx(m, m.start.r, m.start.c), improved[i],
                                  <<>>, m.rows * m.cols + 1)
       IN IF branch = HUNG THEN HUNGS
          ELSE FWBranches(m, next, improved, path, i + 1, Append(acc, branch))

\* Lines 6-76, after the guard.
FWRun(m) ==
  LET st == FWOuter(m, FWInit(m), 0)
      startV == idx(m, m.start.r, m.start.c)
      endV == idx(m, m.end.r, m.end.c)
  IN IF st.dist[startV, endV] = INF THEN Returned(<<>>, <<>>, st.reads)
     ELSE LET path == FWPathWalk(m, st.next, startV, endV, <<>>, m.rows * m.cols + 1)
          IN IF path = HUNG THEN Hung(st.reads)
             ELSE LET branches == FWBranches(m, st.next, st.improved, path, 1, <<>>)
                  IN IF branches = HUNGS THEN Hung(st.reads)
                     ELSE Returned(path, branches, st.reads)

\* The guard as if (!start): with end null the tables are filled, isWall is
\* called for every neighbour, and end.r then throws.
floydWarsGuardStartOnly(m) ==
  IF m.start = null THEN Returned(<<>>, <<>>, 0)
  ELSE IF m.end = null THEN Threw(FWInitReads(m))
  ELSE FWRun(m)

floydWarsShortestPath(m) ==
  IF m.start = null \/ m.end = null THEN Returned(<<>>, <<>>, 0)
  ELSE FWRun(m)

\* ------------------------------------------------------------- NodeModel
\* A node is known by its id; no node (null, undefined) is the empty string,
\* which JavaScript also takes for false.
noId == ""

LETTERS == <<"A", "B", "C", "D", "E", "F", "G", "H", "I", "J", "K", "L", "M",
             "N", "O", "P", "Q", "R", "S", "T", "U", "V", "W", "X", "Y", "Z">>

\* do { id = String.fromCharCode(65 + (n % 26)) + id; n = floor(n / 26) - 1 } while (n >= 0)
RECURSIVE NextIDFrom(_, _)
NextIDFrom(n, id) ==
  LET id1 == LETTERS[(n % 26) + 1] \o id
      n1 == (n \div 26) - 1
  IN IF n1 >= 0 THEN NextIDFrom(n1, id1) ELSE id1

_nextID(n) == NextIDFrom(n, "")

\* this.nodes.find(n => n.id === id): the node, or undefined.
id2node(m, id) == IF id \in Range(m.nodes) THEN id ELSE noId

\* this.edges.filter(e => e.from === node.id).map(e => ({node: find(e.to), edge: e}))
RECURSIVE NeighboursFrom(_, _, _, _)
NeighboursFrom(m, id, i, acc) ==
  IF i > Len(m.edges) THEN acc
  ELSE IF m.edges[i].from = id
    THEN NeighboursFrom(m, id, i + 1,
           Append(acc, [node |-> id2node(m, m.edges[i].to), edge |-> m.edges[i]]))
  ELSE NeighboursFrom(m, id, i + 1, acc)

neighbours(m, id) == NeighboursFrom(m, id, 1, <<>>)

\* neighbours(undefined) reads node.id in the filter callback: a TypeError as
\* soon as there is one edge to filter.
NeighboursThrows(m, node) == node = noId /\ m.edges # <<>>

NodeReturned(path) ==
  [status |-> "returned", path |-> path, branches |-> <<>>, isWallCalls |-> 0]

NodeThrew ==
  [status |-> "threw", path |-> <<>>, branches |-> <<>>, isWallCalls |-> 0]

NodeHung ==
  [status |-> "hung", path |-> <<>>, branches |-> <<>>, isWallCalls |-> 0]

\* The ids a model can mention: those of its nodes, edges and markers.
IdsOf(m) ==
  Range(m.nodes) \cup {m.edges[i].from : i \in 1..Len(m.edges)}
                 \cup {m.edges[i].to : i \in 1..Len(m.edges)}
                 \cup ({m.start, m.goal} \ {noId})

\* ------------------------------------------------------ dijkstraNodePath
\* A Map without the key is ABSENT.
ABSENT == -1

NodeDijInsert(acc, x) ==
  LET later == {j \in 1..Len(acc) : acc[j].d > x.d}
      k == IF later = {} THEN Len(acc) + 1
           ELSE CHOOSE j \in later : \A j2 \in later : j <= j2
  IN SubSeq(acc, 1, k - 1) \o <<x>> \o SubSeq(acc, k, Len(acc))

RECURSIVE NodeDijSort(_, _, _)
NodeDijSort(pq, i, acc) ==
  IF i > Len(pq) THEN acc ELSE NodeDijSort(pq, i + 1, NodeDijInsert(acc, pq[i]))

RECURSIVE NodeDijRelax(_, _, _, _, _)
NodeDijRelax(st, id, d, nbs, i) ==
  IF i > Len(nbs) THEN st
  ELSE IF nbs[i].node = noId THEN NodeDijRelax(st, id, d, nbs, i + 1)
  ELSE LET nb == nbs[i].node
           alt == d + nbs[i].edge.w
       IN IF st.dist[nb] = ABSENT \/ alt < st.dist[nb]
            THEN NodeDijRelax([st EXCEPT !.dist[nb] = alt,
                                         !.prev[nb] = id,
                                         !.pq = Append(@, [id |-> nb, d |-> alt])],
                              id, d, nbs, i + 1)
          ELSE NodeDijRelax(st, id, d, nbs, i + 1)

RECURSIVE NodeDijLoop(_, _)
NodeDijLoop(m, st) ==
  IF st.pq = <<>> THEN st
  ELSE LET sorted == NodeDijSort(st.pq, 1, <<>>)
           top == Head(sorted)
           st1 == [st EXCEPT !.pq = Tail(sorted)]
           node == id2node(m, top.id)
       IN IF top.id = m.goal THEN st1
          ELSE IF NeighboursThrows(m, node) THEN [st1 EXCEPT !.threw = TRUE]
          ELSE NodeDijLoop(m, NodeDijRelax(st1, top.id, top.d, neighbours(m, node), 1))

\* for (let cur = model.goal; cur; cur = prev.get(cur)) path.push(cur)
RECURSIVE NodePrevWalk(_, _, _, _)
NodePrevWalk(prev, cur, acc, fuel) ==
  IF cur = noId THEN acc
  ELSE IF fuel = 0 THEN <<noId>>
  ELSE NodePrevWalk(prev, prev[cur], Append(acc, cur), fuel - 1)

dijkstraNodePath(m) ==
  IF m.start = noId \/ m.goal = noId THEN NodeReturned(<<>>)
  ELSE LET st == NodeDijLoop(m,
                   [dist |-> [x \in IdsOf(m) |-> IF x = m.start THEN 0 ELSE ABSENT],
                    prev |-> [x \in IdsOf(m) |-> noId],
                    pq |-> << [id |-> m.start, d |-> 0] >>,
                    threw |-> FALSE])
       IN IF st.threw THEN NodeThrew
          ELSE IF st.dist[m.goal] = ABSENT THEN NodeReturned(<<>>)
          ELSE LET path == NodePrevWalk(st.prev, m.goal, <<>>, Cardinality(IdsOf(m)) + 1)
               IN IF path = <<noId>> THEN NodeHung ELSE NodeReturned(Reverse(path))

\* ----------------------------------------------------------- bfsNodePath
\* prev.set(v, u) outside the test for a first visit.
RECURSIVE BfsVisitOverwrite(_, _, _, _)
BfsVisitOverwrite(st, u, nbs, i) ==
  IF i > Len(nbs) THEN st
  ELSE IF nbs[i].node = noId THEN BfsVisitOverwrite(st, u, nbs, i + 1)
  ELSE LET v == nbs[i].node
       IN IF v \notin st.seen
            THEN BfsVisitOverwrite([st EXCEPT !.seen = @ \cup {v},
                                              !.prev[v] = u,
                                              !.q = Append(@, v)],
                                   u, nbs, i + 1)
          ELSE BfsVisitOverwrite([st EXCEPT !.prev[v] = u], u, nbs, i + 1)

RECURSIVE BfsVisit(_, _, _, _)
BfsVisit(st, u, nbs, i) ==
  IF i > Len(nbs) THEN st
  ELSE IF nbs[i].node = noId THEN BfsVisit(st, u, nbs, i + 1)
  ELSE LET v == nbs[i].node
       IN IF v \notin st.seen
            THEN BfsVisit([st EXCEPT !.seen = @ \cup {v},
                                     !.prev[v] = u,
                                     !.q = Append(@, v)],
                          u, nbs, i + 1)
          ELSE BfsVisit(st, u, nbs, i + 1)

RECURSIVE BfsLoop(_, _)
BfsLoop(m, st) ==
  IF st.q = <<>> THEN st
  ELSE LET u == Head(st.q)
           st1 == [st EXCEPT !.q = Tail(@)]
           uNode == id2node(m, u)
       IN IF u = m.goal THEN st1
          ELSE IF uNode = noId THEN BfsLoop(m, st1)
          ELSE BfsLoop(m, BfsVisit(st1, u, neighbours(m, uNode), 1))

\* for (cur = goal; cur != null; cur = prev.get(cur)) { path.push(cur); if (cur === start) break }
RECURSIVE NodeStartWalk(_, _, _, _, _)
NodeStartWalk(prev, s, cur, acc, fuel) ==
  IF cur = noId THEN acc
  ELSE IF fuel = 0 THEN <<noId>>
  ELSE IF cur = s THEN Append(acc, cur)
  ELSE NodeStartWalk(prev, s, prev[cur], Append(acc, cur), fuel - 1)

\* Lines 91-97, the same in dfsNodePath.
NodeStartPath(m, prev) ==
  LET path == NodeStartWalk(prev, m.start, m.goal, <<>>, Cardinality(IdsOf(m)) + 1)
  IN IF path = <<noId>> THEN NodeHung
     ELSE IF path[Len(path)] # m.start THEN NodeReturned(<<>>)
     ELSE NodeReturned(Reverse(path))

bfsNodePath(m) ==
  IF m.start = noId \/ m.goal = noId THEN NodeReturned(<<>>)
  ELSE LET st == BfsLoop(m, [q |-> <<m.start>>,
                             seen |-> {m.start},
                             prev |-> [x \in IdsOf(m) |-> noId]])
       IN IF m.goal \notin st.seen THEN NodeReturned(<<>>)
          ELSE NodeStartPath(m, st.prev)

\* ----------------------------------------------------------- dfsNodePath
\* model.neighbours(uNode).map(({ node }) => node).filter(Boolean).reverse()
DfsNbrs(m, uNode) ==
  Reverse(SelectSeq([i \in 1..Len(neighbours(m, uNode)) |-> neighbours(m, uNode)[i].node],
                    LAMBDA n : n # noId))

\* The stack is popped before the neighbours are pushed, and the test for a
\* first visit is made against the popped node instead of the neighbour.
RECURSIVE DfsVisitTestsParent(_, _, _, _)
DfsVisitTestsParent(st, u, nbrs, i) ==
  IF i > Len(nbrs) THEN st
  ELSE IF u \notin st.seen
    THEN DfsVisitTestsParent([st EXCEPT !.seen = @ \cup {nbrs[i]},
                                        !.prev[nbrs[i]] = u,
                                        !.st = Append(@, nbrs[i])],
                             u, nbrs, i + 1)
  ELSE DfsVisitTestsParent(st, u, nbrs, i + 1)

RECURSIVE DfsVisit(_, _, _, _)
DfsVisit(st, u, nbrs, i) ==
  IF i > Len(nbrs) THEN st
  ELSE IF nbrs[i] \notin st.seen
    THEN DfsVisit([st EXCEPT !.seen = @ \cup {nbrs[i]},
                             !.prev[nbrs[i]] = u,
                             !.st = Append(@, nbrs[i])],
                  u, nbrs, i + 1)
  ELSE DfsVisit(st, u, nbrs, i + 1)

RECURSIVE DfsLoop(_, _)
DfsLoop(m, st) ==
  IF st.st = <<>> THEN st
  ELSE LET u == st.st[Len(st.st)]
           st1 == [st EXCEPT !.st = SubSeq(@, 1, Len(@) - 1)]
           uNode == id2node(m, u)
       IN IF u = m.goal THEN [st1 EXCEPT !.found = TRUE]
          ELSE IF uNode = noId THEN DfsLoop(m, st1)
          ELSE DfsLoop(m, DfsVisit(st1, u, DfsNbrs(m, uNode), 1))

dfsNodePath(m) ==
  IF m.start = noId \/ m.goal = noId THEN NodeReturned(<<>>)
  ELSE LET st == DfsLoop(m, [st |-> <<m.start>>,
                             seen |-> {m.start},
                             prev |-> [x \in IdsOf(m) |-> noId],
                             found |-> FALSE])
       IN IF ~st.found THEN NodeReturned(<<>>)
          ELSE NodeStartPath(m, st.prev)

\* ------------------------------------------------------ the state machine
NoRet == [alg |-> "none", status |-> "none", path |-> <<>>, branches |-> <<>>,
          isWallCalls |-> 0, again |-> FALSE]

\* ALG[alg](model) of the application: the algorithm selected by name.
ALG(alg, m) ==
  CASE alg = "dijkstra" -> dijShortestPath(m)
    [] alg = "astar" -> aStarShortestPath(m)
    [] alg = "bellmanFord" -> bellmanFordShortestPath(m)
    [] alg = "floydWarshall" -> floydWarsShortestPath(m)

NODE_ALGS == {"bfs", "dfs", "dijkstraNode"}

NodeALG(alg, m) ==
  CASE alg = "bfs" -> bfsNodePath(m)
    [] alg = "dfs" -> dfsNodePath(m)
    [] alg = "dijkstraNode" -> dijkstraNodePath(m)

\* again: the call repeated one made on the model as it is.
Call(alg, out) ==
  [alg |-> alg, status |-> out.status, path |-> out.path,
   branches |-> out.branches, isWallCalls |-> out.isWallCalls, again |-> FALSE]

\* The model object handed to a node-graph algorithm.
NodeSnapshot == [nodes |-> nodes, edges |-> edges, start |-> nodeStart, goal |-> goal]

\* The weights an edge can be given: 1 by addEdge, any positive number typed
\* into the prompt afterwards.
Weights == {DefaultW, HeavyW}

\* ------------------------------------------------- playback of the grid
\* Time is counted in units of 60 ms: the speed slider starts at 120 ms.
DefaultSpeed == 2

\* a.lastTs == null
NoTs == -1

\* No cursor on record; <<p>> is cursor p on record.
NoPos == <<>>

\* a.rafId == null; requestAnimationFrame hands out non-zero ids.
NoRaf == 0

\* The object clearAnim stores in animRef.current. Its timer field is never
\* set by this version of the application and is left out.
NewAnim(ms) ==
  [path |-> <<>>, pos |-> 0, branches |-> <<>>, playing |-> FALSE,
   rafId |-> NoRaf, lastTs |-> NoTs, acc |-> 0, msPerStep |-> ms]

\* A callback waiting for the next animation frame: its id and the object
\* a that its tick closes over. live: that object is still
\* animRef.current; otherwise obj holds the object, which only the callback
\* still refers to.
LiveFrame(id) == [id |-> id, live |-> TRUE, obj |-> NewAnim(DefaultSpeed)]

LostFrame(id, a) == [id |-> id, live |-> FALSE, obj |-> a]

RafIds(q) == {cb.id : cb \in q}

\* requestAnimationFrame(tick): an id no waiting callback and no rafId field
\* holds; the least one, the ids having no meaning beyond their identity.
requestAnimationFrame(q, a) ==
  LET used == RafIds(q) \cup {a.rafId}
  IN CHOOSE n \in 1..(Cardinality(used) + 1) :
       n \notin used /\ \A k \in 1..(n - 1) : k \in used

cancelAnimationFrame(q, id) == {cb \in q : cb.id # id}

\* clearAnim: the frame a.rafId names is cancelled and animRef.current is a
\* new object. A callback still waiting then keeps the old object to itself.
clearAnimNoCancel(a, q, ms) ==
  [a |-> NewAnim(ms),
   q |-> {IF cb.live THEN LostFrame(cb.id, a) ELSE cb : cb \in q}]

clearAnim(a, q, ms) ==
  LET q1 == IF a.rafId # NoRaf THEN cancelAnimationFrame(q, a.rafId) ELSE q
  IN [a |-> NewAnim(ms),
      q |-> {IF cb.live THEN LostFrame(cb.id, a) ELSE cb : cb \in q1}]

\* The main cursor and the branch cursors.
Cursors(a) == <<a.pos, [i \in 1..Len(a.branches) |-> a.branches[i].pos]>>

\* for (const b of a.branches) if (b.pos < b.path.length - 1) b.pos++
StepBranches(bs) ==
  [i \in 1..Len(bs) |->
     IF bs[i].pos < Len(bs[i].path) - 1 THEN [bs[i] EXCEPT !.pos = @ + 1] ELSE bs[i]]

\* Without the test a.pos < a.path.length - 1.
stepAnimNoClamp(a) ==
  IF a.path = <<>> THEN a
  ELSE [a EXCEPT !.pos = @ + 1, !.branches = StepBranches(@)]

stepAnim(a) ==
  IF a.path = <<>> THEN a
  ELSE [a EXCEPT !.pos = IF @ < Len(a.path) - 1 THEN @ + 1 ELSE @,
                 !.branches = StepBranches(@)]

\* computeIfNeeded in maze mode: the selected algorithm is invoked when the
\* cached path is empty. An algorithm that does not return ends the handler
\* there.
computeIfNeeded(a, alg, m) ==
  IF a.path # <<>> THEN [a |-> a, invoked |-> FALSE, threw |-> FALSE]
  ELSE LET res == ALG(alg, m)
       IN IF res.status # "returned"
            THEN [a |-> a, invoked |-> TRUE, threw |-> TRUE]
          ELSE [a |-> [a EXCEPT !.path = res.path,
                                !.branches = [i \in 1..Len(res.branches) |->
                                                [path |-> res.branches[i], pos |-> 0]],
                                !.pos = 0],
                invoked |-> TRUE, threw |-> FALSE]

\* startRAF: nothing when already playing; else the clock is started and the
\* first frame requested.
startRAF(a, q, ms) ==
  IF a.playing THEN [a |-> a, q |-> q]
  ELSE LET id == requestAnimationFrame(q, a)
       IN [a |-> [a EXCEPT !.playing = TRUE, !.lastTs = NoTs, !.acc = 0,
                           !.msPerStep = ms, !.rafId = id],
           q |-> q \cup {LiveFrame(id)}]

\* Without a.playing = false: the frame is cancelled, the flag stays up.
handlePauseKeepsFlag(a, q) ==
  IF ~a.playing THEN [a |-> a, q |-> q]
  ELSE [a |-> [a EXCEPT !.rafId = NoRaf],
        q |-> IF a.rafId # NoRaf THEN cancelAnimationFrame(q, a.rafId) ELSE q]

\* handlePause in maze mode, on animRef.current.
handlePause(a, q) ==
  IF ~a.playing THEN [a |-> a, q |-> q]
  ELSE [a |-> [a EXCEPT !.playing = FALSE, !.rafId = NoRaf],
        q |-> IF a.rafId # NoRaf THEN cancelAnimationFrame(q, a.rafId) ELSE q]

\* With if in the place of while: one cell a frame at most.
AdvanceOnce(a) ==
  IF a.acc >= a.msPerStep /\ a.pos < Len(a.path) - 1
    THEN [a EXCEPT !.acc = @ - a.msPerStep, !.pos = @ + 1,
                   !.branches = StepBranches(@)]
  ELSE a

\* while (a.acc >= a.msPerStep && a.pos < a.path.length - 1) { ... }
RECURSIVE Advance(_)
Advance(a) ==
  IF a.acc >= a.msPerStep /\ a.pos < Len(a.path) - 1
    THEN Advance([a EXCEPT !.acc = @ - a.msPerStep, !.pos = @ + 1,
                           !.branches = StepBranches(@)])
  ELSE a

\* The body of tick(ts) on its object a, up to the frame's drawing: done says
\* the path's end is reached (tick then calls handlePause and returns),
\* again that tick requests the next frame.
tickNoPlayingTest(a, ts) ==
  LET last == IF a.lastTs = NoTs THEN ts ELSE a.lastTs
      a1 == Advance([a EXCEPT !.lastTs = ts, !.acc = @ + (ts - last)])
  IN IF a1.pos >= Len(a1.path) - 1
       THEN [a |-> a1, again |-> FALSE, done |-> TRUE]
     ELSE [a |-> a1, again |-> TRUE, done |-> FALSE]

tick(a, ts) ==
  IF ~a.playing THEN [a |-> a, again |-> FALSE, done |-> FALSE]
  ELSE LET last == IF a.lastTs = NoTs THEN ts ELSE a.lastTs
           a1 == Advance([a EXCEPT !.lastTs = ts, !.acc = @ + (ts - last)])
       IN IF a1.pos >= Len(a1.path) - 1
            THEN [a |-> a1, again |-> FALSE, done |-> TRUE]
          ELSE [a |-> a1, again |-> TRUE, done |-> FALSE]

\* The timestamps a frame can bring to an object: later than its last one.
\* tick uses differences of timestamps only, so time is counted from the
\* first frame after the clock was started.
FrameTimes(a) ==
  IF a.lastTs = NoTs THEN {0} ELSE (a.lastTs + 1)..(a.lastTs + MaxFrame)

\* ------------------------------------------------ playback of the graph
\* NodeView.anim. progress counts the frames of the current segment: _tick
\* adds 0.02 a frame and a segment ends at 1, after 50 frames; the model
\* makes a segment SegFrames frames long.
NewNodeAnim == [path |-> <<>>, seg |-> 0, progress |-> 0, playing |-> FALSE]

\* draw() reads curNode.x and nextNode.x of the nodes the shown segment
\* names: a TypeError when one of them is no longer in the model.
DrawThrows(v, m) ==
  /\ v.path # <<>>
  /\ \/ id2node(m, v.path[v.seg + 1]) = noId
     \/ /\ v.seg < Len(v.path) - 1
        /\ id2node(m, v.path[v.seg + 2]) = noId

\* NodeView._tick: again says that the next frame is requested, threw that
\* draw() threw before that.
_tick(v, m) ==
  IF ~v.playing THEN [v |-> v, again |-> FALSE, threw |-> FALSE]
  ELSE LET p == v.progress + 1
           last == Len(v.path) - 1
           v1 == IF p >= SegFrames
                   THEN IF v.seg + 1 >= last
                          THEN [v EXCEPT !.progress = 0, !.seg = last, !.playing = FALSE]
                        ELSE [v EXCEPT !.progress = 0, !.seg = @ + 1]
                 ELSE [v EXCEPT !.progress = p]
       IN IF DrawThrows(v1, m) THEN [v |-> v1, again |-> FALSE, threw |-> TRUE]
          ELSE [v |-> v1, again |-> v1.playing, threw |-> FALSE]

\* startAnim(path) { this.anim = {path, seg: 0, progress: 0, playing: true}; this._tick() }
startAnim(path, m) ==
  _tick([path |-> path, seg |-> 0, progress |-> 0, playing |-> TRUE], m)

pauseAnim(v) == [v EXCEPT !.playing = FALSE]

\* NodeView.stepAnim
nodeStepAnim(v) ==
  IF v.path = <<>> THEN v
  ELSE [v EXCEPT !.seg = IF @ < Len(v.path) - 1 THEN @ + 1 ELSE @, !.progress = 0]

\* new GridModel(rows, cols)
NewGrid ==
  /\ walls = {}
  /\ start = null
  /\ end = null

\* new NodeModel()
NewNodes ==
  /\ nodes = <<>>
  /\ counter = 0
  /\ edges = <<>>
  /\ nodeStart = noId
  /\ goal = noId

\* Nothing cached, nothing playing, no frame requested.
NewCtl ==
  /\ anim = NewAnim(DefaultSpeed)
  /\ rafQueue = {}
  /\ nodeAnim = NewNodeAnim
  /\ nodeRaf = 0
  /\ calls = 0
  /\ elapsed = 0
  /\ pos0 = NoPos
  /\ oldFrames = 0
  /\ frozen = NoPos

Init ==
  /\ visual = "maze"
  /\ rows \in 1..MaxRows
  /\ cols \in 1..MaxCols
  /\ NewGrid
  /\ NewNodes
  /\ ret = NoRet
  /\ NewCtl

\* setVisual: the effect builds a new model of the other kind, a
\* GridModel(rows, cols) of the size then typed in, or a NodeModel, which
\* has no rows and no columns.
setVisual ==
  /\ visual' = IF visual = "maze" THEN "nodes" ELSE "maze"
  /\ IF visual = "maze"
       THEN rows' = 0 /\ cols' = 0
       ELSE rows' \in 1..MaxRows /\ cols' \in 1..MaxCols
  /\ walls' = {}
  /\ start' = null
  /\ end' = null
  /\ nodes' = <<>>
  /\ counter' = 0
  /\ edges' = <<>>
  /\ nodeStart' = noId
  /\ goal' = noId
  /\ ret' = NoRet
  /\ UNCHANGED ctlVars

\* ---- GridModel operations
addWall(r, c) ==
  /\ visual = "maze"
  /\ walls' = walls \cup {Cell(r, c)}
  /\ ret' = NoRet
  /\ UNCHANGED <<visual, rows, cols, start, end>>
  /\ UNCHANGED nodeVars
  /\ UNCHANGED ctlVars

removeWall(r, c) ==
  /\ visual = "maze"
  /\ walls' = walls \ {Cell(r, c)}
  /\ ret' = NoRet
  /\ UNCHANGED <<visual, rows, cols, start, end>>
  /\ UNCHANGED nodeVars
  /\ UNCHANGED ctlVars

setMarker(type, r, c) ==
  /\ visual = "maze"
  /\ start' = IF type = "start" THEN Cell(r, c) ELSE start
  /\ end' = IF type = "end" THEN Cell(r, c) ELSE end
  /\ ret' = NoRet
  /\ UNCHANGED <<visual, rows, cols, walls>>
  /\ UNCHANGED nodeVars
  /\ UNCHANGED ctlVars

clearMarker(type) ==
  /\ visual = "maze"
  /\ start' = IF type = "start" THEN null ELSE start
  /\ end' = IF type = "end" THEN null ELSE end
  /\ ret' = NoRet
  /\ UNCHANGED <<visual, rows, cols, walls>>
  /\ UNCHANGED nodeVars
  /\ UNCHANGED ctlVars

clear ==
  /\ visual = "maze"
  /\ walls' = {}
  /\ ret' = NoRet
  /\ UNCHANGED <<visual, rows, cols, start, end>>
  /\ UNCHANGED nodeVars
  /\ UNCHANGED ctlVars

\* handleReset: the cached result is discarded.
handleReset ==
  /\ ret' = NoRet
  /\ UNCHANGED <<visual, rows, cols, walls, start, end>>
  /\ UNCHANGED nodeVars
  /\ UNCHANGED ctlVars

\* As if the search marked the cells of its path in model.walls.
RunGridMarksPath(alg) ==
  /\ visual = "maze"
  /\ ret.path = <<>>
  /\ ret' = Call(alg, ALG(alg, GridSnapshot))
  /\ walls' = walls \cup (Range(ret'.path) \ {start, end})
  /\ UNCHANGED <<visual, rows, cols, start, end>>
  /\ UNCHANGED nodeVars
  /\ UNCHANGED ctlVars

\* computeIfNeeded with each algorithm selected: the algorithm is invoked
\* when no path is cached, if (!animRef.current.path.length).
RunGrid(alg) ==
  /\ visual = "maze"
  /\ ret.path = <<>>
  /\ ret' = Call(alg, ALG(alg, GridSnapshot))
  /\ UNCHANGED <<visual, rows, cols, walls, start, end>>
  /\ UNCHANGED nodeVars
  /\ UNCHANGED ctlVars

\* The algorithm of the last call invoked once more on the same model, as a
\* caller of the library may.
RerunGrid ==
  /\ visual = "maze"
  /\ ret.alg \in GRID_ALGS
  /\ ret' = [Call(ret.alg, ALG(ret.alg, GridSnapshot)) EXCEPT !.again = TRUE]
  /\ UNCHANGED <<visual, rows, cols, walls, start, end>>
  /\ UNCHANGED nodeVars
  /\ UNCHANGED ctlVars

RunDijkstra == RunGrid("dijkstra")

RunAStar == RunGrid("astar")

RunBellmanFord == RunGrid("bellmanFord")

RunFloydWarshall == RunGrid("floydWarshall")

\* ---- NodeModel operations
add ==
  /\ visual = "nodes"
  /\ counter < MaxNodes
  /\ nodes' = Append(nodes, _nextID(counter))
  /\ counter' = counter + 1
  /\ ret' = NoRet
  /\ UNCHANGED <<visual, edges, nodeStart, goal>>
  /\ UNCHANGED gridVars
  /\ UNCHANGED ctlVars

\* The filter with the test of e.from alone.
removeOutgoingOnly(node) ==
  /\ visual = "nodes"
  /\ nodes' = SelectSeq(nodes, LAMBDA n : n # node)
  /\ edges' = SelectSeq(edges, LAMBDA e : e.from # node)
  /\ ret' = NoRet
  /\ UNCHANGED <<visual, counter, nodeStart, goal>>
  /\ UNCHANGED gridVars
  /\ UNCHANGED ctlVars

remove(node) ==
  /\ visual = "nodes"
  /\ nodes' = SelectSeq(nodes, LAMBDA n : n # node)
  /\ edges' = SelectSeq(edges, LAMBDA e : e.from # node /\ e.to # node)
  /\ ret' = NoRet
  /\ UNCHANGED <<visual, counter, nodeStart, goal>>
  /\ UNCHANGED gridVars
  /\ UNCHANGED ctlVars

addEdge(fromNode, toNode) ==
  /\ visual = "nodes"
  /\ Len(edges) < MaxEdges
  /\ edges' = IF fromNode = toNode
                 \/ \E i \in 1..Len(edges) :
                      edges[i].from = fromNode /\ edges[i].to = toNode
                THEN edges
                ELSE Append(edges, [from |-> fromNode, to |-> toNode, w |-> DefaultW])
  /\ ret' = NoRet
  /\ UNCHANGED <<visual, nodes, counter, nodeStart, goal>>
  /\ UNCHANGED gridVars
  /\ UNCHANGED ctlVars

removeEdge(fromId, toId) ==
  /\ visual = "nodes"
  /\ edges' = SelectSeq(edges, LAMBDA e : ~(e.from = fromId /\ e.to = toId))
  /\ ret' = NoRet
  /\ UNCHANGED <<visual, nodes, counter, nodeStart, goal>>
  /\ UNCHANGED gridVars
  /\ UNCHANGED ctlVars

\* NodeView._onDbl: edge.w = w for a finite w > 0.
setWeight(i, w) ==
  /\ visual = "nodes"
  /\ w > 0
  /\ edges' = [edges EXCEPT ![i].w = w]
  /\ ret' = NoRet
  /\ UNCHANGED <<visual, nodes, counter, nodeStart, goal>>
  /\ UNCHANGED gridVars
  /\ UNCHANGED ctlVars

setNodeMarker(kind, node) ==
  /\ visual = "nodes"
  /\ nodeStart' = IF kind = "start" THEN node ELSE nodeStart
  /\ goal' = IF kind = "end" THEN node ELSE goal
  /\ ret' = NoRet
  /\ UNCHANGED <<visual, nodes, counter, edges>>
  /\ UNCHANGED gridVars
  /\ UNCHANGED ctlVars

clearNodeMarker(kind) ==
  /\ visual = "nodes"
  /\ nodeStart' = IF kind = "start" THEN noId ELSE nodeStart
  /\ goal' = IF kind = "end" THEN noId ELSE goal
  /\ ret' = NoRet
  /\ UNCHANGED <<visual, nodes, counter, edges>>
  /\ UNCHANGED gridVars
  /\ UNCHANGED ctlVars

\* handlePlay / handleStep in nodes mode call the algorithm when no path is
\* being shown, if (!view.anim.path.length).
RunNode(alg) ==
  /\ visual = "nodes"
  /\ ret.path = <<>>
  /\ ret' = Call(alg, NodeALG(alg, NodeSnapshot))
  /\ UNCHANGED <<visual, nodes, counter, edges, nodeStart, goal>>
  /\ UNCHANGED gridVars
  /\ UNCHANGED ctlVars

RerunNode ==
  /\ visual = "nodes"
  /\ ret.alg \in NODE_ALGS
  /\ ret' = [Call(ret.alg, NodeALG(ret.alg, NodeSnapshot)) EXCEPT !.again = TRUE]
  /\ UNCHANGED <<visual, nodes, counter, edges, nodeStart, goal>>
  /\ UNCHANGED gridVars
  /\ UNCHANGED ctlVars

RunBfs == RunNode("bfs")

RunDfs == RunNode("dfs")

RunNodeDijkstra == RunNode("dijkstraNode")

Next ==
  \/ setVisual
  \/ \E x \in CellsOf(rows, cols) : addWall(x.r, x.c)
  \/ \E x \in CellsOf(rows, cols) : removeWall(x.r, x.c)
  \/ \E type \in {"start", "end"}, x \in CellsOf(rows, cols) : setMarker(type, x.r, x.c)
  \/ \E type \in {"start", "end"} : clearMarker(type)
  \/ clear
  \/ handleReset
  \/ RunDijkstra
  \/ RunAStar
  \/ RunBellmanFord
  \/ RunFloydWarshall
  \/ RerunGrid
  \/ add
  \/ \E n \in Range(nodes) : remove(n)
  \/ \E a \in Range(nodes), b \in Range(nodes) : addEdge(a, b)
  \/ \E i \in 1..Len(edges) : removeEdge(edges[i].from, edges[i].to)
  \/ \E i \in 1..Len(edges), w \in Weights : setWeight(i, w)
  \/ \E kind \in {"start", "end"}, n \in Range(nodes) : setNodeMarker(kind, n)
  \/ \E kind \in {"start", "end"} : clearNodeMarker(kind)
  \/ RunBfs
  \/ RunDfs
  \/ RunNodeDijkstra
  \/ RerunNode

Spec == Init /\ [][Next]_vars

\* ================================================ the application at play
\* The buttons, the canvas and the animation frames of App, on the models
\* above. The algorithm and the speed are what the two controls show when a
\* handler reads them. A handler's intermediate value is bound by \E over
\* the one-element set that holds it.
Speeds == 1..MaxSpeed

\* The first render in maze mode: a GridModel(n, n), resetAnim().
CtlInit ==
  /\ visual = "maze"
  /\ rows \in 1..CtlN
  /\ cols = rows
  /\ NewGrid
  /\ NewNodes
  /\ ret = NoRet
  /\ NewCtl

\* handlePlay in maze mode with alg selected: computeIfNeeded(); startRAF().
PlayWith(alg) ==
  /\ visual = "maze"
  /\ \E ms \in Speeds :
       \E c \in {computeIfNeeded(anim, alg, GridSnapshot)} :
       \E s \in {startRAF(c.a, rafQueue, ms)} :
          /\ c.invoked => calls < MaxCalls
          /\ calls' = IF c.invoked THEN calls + 1 ELSE calls
          /\ IF c.threw
               THEN UNCHANGED <<anim, rafQueue, elapsed, pos0>>
             ELSE /\ anim' = s.a
                  /\ rafQueue' = s.q
                  /\ elapsed' = IF c.a.playing THEN elapsed ELSE 0
                  /\ pos0' = IF c.a.playing THEN pos0 ELSE <<c.a.pos>>
  /\ frozen' = NoPos
  /\ UNCHANGED <<visual, ret, nodeAnim, nodeRaf, oldFrames>>
  /\ UNCHANGED gridVars
  /\ UNCHANGED nodeVars

\* Play pressed with any algorithm in the select: setAlg changes nothing
\* but the alg that the next handler reads.
Play == \E alg \in GRID_ALGS : PlayWith(alg)

\* handlePause in maze mode.
Pause ==
  /\ visual = "maze"
  /\ LET p == handlePause(anim, rafQueue)
     IN anim' = p.a /\ rafQueue' = p.q
  /\ pos0' = NoPos
  /\ frozen' = IF anim.playing THEN <<Cursors(anim)>> ELSE frozen
  /\ UNCHANGED <<visual, ret, nodeAnim, nodeRaf, calls, elapsed, oldFrames>>
  /\ UNCHANGED gridVars
  /\ UNCHANGED nodeVars

\* handleStep in maze mode with alg selected: computeIfNeeded();
\* handlePause(); stepAnim().
StepWith(alg) ==
  /\ visual = "maze"
  /\ \E c \in {computeIfNeeded(anim, alg, GridSnapshot)} :
       \E p \in {handlePause(c.a, rafQueue)} :
          /\ c.invoked => calls < MaxCalls
          /\ calls' = IF c.invoked THEN calls + 1 ELSE calls
          /\ IF c.threw
               THEN UNCHANGED <<anim, rafQueue>>
             ELSE /\ anim' = stepAnim(p.a)
                  /\ rafQueue' = p.q
  /\ pos0' = NoPos
  /\ frozen' = NoPos
  /\ UNCHANGED <<visual, ret, nodeAnim, nodeRaf, elapsed, oldFrames>>
  /\ UNCHANGED gridVars
  /\ UNCHANGED nodeVars

Step == \E alg \in GRID_ALGS : StepWith(alg)

\* handleReset in maze mode: clearAnim().
Reset ==
  /\ visual = "maze"
  /\ \E ms \in Speeds :
       LET k == clearAnim(anim, rafQueue, ms)
       IN anim' = k.a /\ rafQueue' = k.q
  /\ calls' = 0
  /\ elapsed' = 0
  /\ pos0' = NoPos
  /\ frozen' = NoPos
  /\ UNCHANGED <<visual, ret, nodeAnim, nodeRaf, oldFrames>>
  /\ UNCHANGED gridVars
  /\ UNCHANGED nodeVars

\* An animation frame: the browser runs one waiting callback, tick(ts). At
\* the path's end tick calls handlePause, which acts on animRef.current;
\* otherwise it requests the next frame.
Frame ==
  /\ \E cb \in rafQueue :
       LET q0 == rafQueue \ {cb}
           a == IF cb.live THEN anim ELSE cb.obj
       IN \E ts \in FrameTimes(a) :
          \E t \in {tick(a, ts)} :
          \E p \in {handlePause(IF cb.live THEN t.a ELSE anim, q0)} :
          \E id \in {requestAnimationFrame(q0, t.a)} :
          \E a2 \in {[t.a EXCEPT !.rafId = id]} :
               /\ anim' = IF t.done THEN p.a
                          ELSE IF ~cb.live THEN anim
                          ELSE IF t.again THEN a2 ELSE t.a
               /\ rafQueue' = IF t.done THEN p.q
                              ELSE IF ~t.again THEN q0
                              ELSE IF cb.live THEN q0 \cup {LiveFrame(id)}
                              ELSE q0 \cup {LostFrame(id, a2)}
               /\ elapsed' = IF cb.live /\ a.playing /\ a.lastTs # NoTs
                               THEN elapsed + (ts - a.lastTs)
                             ELSE elapsed
  /\ UNCHANGED <<visual, ret, nodeAnim, nodeRaf, calls, pos0, oldFrames, frozen>>
  /\ UNCHANGED gridVars
  /\ UNCHANGED nodeVars

\* applyPaint([r, c]) of a mouse stroke that adds or removes walls:
\* model.addWall or model.removeWall, then clearAnim().
Paint(r, c, paintAdd) ==
  /\ visual = "maze"
  /\ walls' = IF paintAdd THEN walls \cup {Cell(r, c)} ELSE walls \ {Cell(r, c)}
  /\ \E ms \in Speeds :
       LET k == clearAnim(anim, rafQueue, ms)
       IN anim' = k.a /\ rafQueue' = k.q
  /\ calls' = 0
  /\ elapsed' = 0
  /\ pos0' = NoPos
  /\ frozen' = NoPos
  /\ UNCHANGED <<visual, rows, cols, start, end, ret, nodeAnim, nodeRaf, oldFrames>>
  /\ UNCHANGED nodeVars

\* onDrop in maze mode: model.setMarker(kind, r, c); view.draw().
Drop(kind, r, c) ==
  /\ visual = "maze"
  /\ start' = IF kind = "start" THEN Cell(r, c) ELSE start
  /\ end' = IF kind = "end" THEN Cell(r, c) ELSE end
  /\ calls' = 0
  /\ UNCHANGED <<visual, rows, cols, walls, ret>>
  /\ UNCHANGED <<anim, rafQueue, nodeAnim, nodeRaf, elapsed, pos0, oldFrames, frozen>>
  /\ UNCHANGED nodeVars

\* clearMaze: model.clear(); clearAnim().
ClearMaze ==
  /\ visual = "maze"
  /\ walls' = {}
  /\ \E ms \in Speeds :
       LET k == clearAnim(anim, rafQueue, ms)
       IN anim' = k.a /\ rafQueue' = k.q
  /\ calls' = 0
  /\ elapsed' = 0
  /\ pos0' = NoPos
  /\ frozen' = NoPos
  /\ UNCHANGED <<visual, rows, cols, start, end, ret, nodeAnim, nodeRaf, oldFrames>>
  /\ UNCHANGED nodeVars

\* generateMaze: model.clear(); model.randomFill(0.32); the walls on the
\* marked cells removed; clearAnim().
GenerateMaze ==
  /\ visual = "maze"
  /\ walls' \in SUBSET (CellsOf(rows, cols) \ {start, end})
  /\ \E ms \in Speeds :
       LET k == clearAnim(anim, rafQueue, ms)
       IN anim' = k.a /\ rafQueue' = k.q
  /\ calls' = 0
  /\ elapsed' = 0
  /\ pos0' = NoPos
  /\ frozen' = NoPos
  /\ UNCHANGED <<visual, rows, cols, start, end, ret, nodeAnim, nodeRaf, oldFrames>>
  /\ UNCHANGED nodeVars

\* setN: the effects build a GridModel(n, n) and call resetAnim().
Resize ==
  /\ visual = "maze"
  /\ rows' \in 1..CtlN
  /\ cols' = rows'
  /\ walls' = {}
  /\ start' = null
  /\ end' = null
  /\ \E ms \in Speeds :
       LET k == clearAnim(anim, rafQueue, ms)
       IN anim' = k.a /\ rafQueue' = k.q
  /\ calls' = 0
  /\ elapsed' = 0
  /\ pos0' = NoPos
  /\ frozen' = NoPos
  /\ UNCHANGED <<visual, ret, nodeAnim, nodeRaf, oldFrames>>
  /\ UNCHANGED nodeVars

\* The visual selector: the effect builds the model and the view of the
\* other kind, and calls resetAnim() when that is the grid. The frames of
\* the abandoned NodeView act on that view alone. The selector is used while
\* the grid is idle.
SwitchVisual ==
  /\ anim.path = <<>>
  /\ rafQueue = {}
  /\ visual' = IF visual = "maze" THEN "nodes" ELSE "maze"
  /\ IF visual = "maze"
       THEN /\ rows' = 0
            /\ cols' = 0
            /\ UNCHANGED <<anim, rafQueue>>
       ELSE /\ rows' \in 1..CtlN
            /\ cols' = rows'
            /\ \E ms \in Speeds :
                 LET k == clearAnim(anim, rafQueue, ms)
                 IN anim' = k.a /\ rafQueue' = k.q
  /\ walls' = {}
  /\ start' = null
  /\ end' = null
  /\ nodes' = <<>>
  /\ counter' = 0
  /\ edges' = <<>>
  /\ nodeStart' = noId
  /\ goal' = noId
  /\ nodeAnim' = NewNodeAnim
  /\ nodeRaf' = 0
  /\ oldFrames' = 0
  /\ calls' = 0
  /\ elapsed' = 0
  /\ pos0' = NoPos
  /\ frozen' = NoPos
  /\ UNCHANGED ret

\* ---- the node canvas
\* Everything a handler of the node canvas leaves alone.
NodeEditFrame ==
  /\ UNCHANGED <<visual, ret, anim, rafQueue, nodeAnim, nodeRaf, calls, elapsed>>
  /\ UNCHANGED <<pos0, oldFrames, frozen>>
  /\ UNCHANGED gridVars

\* addNode: model.add(x, y)
AddNode ==
  /\ visual = "nodes"
  /\ counter < CtlNodes
  /\ nodes' = Append(nodes, _nextID(counter))
  /\ counter' = counter + 1
  /\ UNCHANGED <<edges, nodeStart, goal>>
  /\ NodeEditFrame

\* _onUp in delete-node mode: model.remove(node)
DeleteNode(node) ==
  /\ visual = "nodes"
  /\ nodes' = SelectSeq(nodes, LAMBDA n : n # node)
  /\ edges' = SelectSeq(edges, LAMBDA e : e.from # node /\ e.to # node)
  /\ UNCHANGED <<counter, nodeStart, goal>>
  /\ NodeEditFrame

\* _onUp in edge mode: model.addEdge(from, to)
DrawEdge(fromNode, toNode) ==
  /\ visual = "nodes"
  /\ Len(edges) < CtlEdges
  /\ edges' = IF fromNode = toNode
                 \/ \E i \in 1..Len(edges) :
                      edges[i].from = fromNode /\ edges[i].to = toNode
                THEN edges
                ELSE Append(edges, [from |-> fromNode, to |-> toNode, w |-> DefaultW])
  /\ UNCHANGED <<nodes, counter, nodeStart, goal>>
  /\ NodeEditFrame

\* _onUp in delete-edge mode: model.removeEdge(from, to)
DeleteEdge(fromId, toId) ==
  /\ visual = "nodes"
  /\ edges' = SelectSeq(edges, LAMBDA e : ~(e.from = fromId /\ e.to = toId))
  /\ UNCHANGED <<nodes, counter, nodeStart, goal>>
  /\ NodeEditFrame

\* _onDbl: edge.w = w
EditWeight(i, w) ==
  /\ visual = "nodes"
  /\ w > 0
  /\ edges' = [edges EXCEPT ![i].w = w]
  /\ UNCHANGED <<nodes, counter, nodeStart, goal>>
  /\ NodeEditFrame

\* onDrop in nodes mode: model.setMarker(kind, node)
DropOnNode(kind, node) ==
  /\ visual = "nodes"
  /\ nodeStart' = IF kind = "start" THEN node ELSE nodeStart
  /\ goal' = IF kind = "end" THEN node ELSE goal
  /\ UNCHANGED <<nodes, counter, edges>>
  /\ NodeEditFrame

\* _onDown on a node that carries a marker: the marker is cleared.
ClickMarker(node) ==
  /\ visual = "nodes"
  /\ node = nodeStart \/ node = goal
  /\ nodeStart' = IF node = nodeStart THEN noId ELSE nodeStart
  /\ goal' = IF node = goal THEN noId ELSE goal
  /\ UNCHANGED <<nodes, counter, edges>>
  /\ NodeEditFrame

\* Everything a button leaves alone in nodes mode.
NodeButtonFrame ==
  /\ UNCHANGED <<visual, ret, anim, rafQueue, calls, elapsed, pos0>>
  /\ UNCHANGED gridVars
  /\ UNCHANGED nodeVars

\* The frames waiting after a call of _tick.
Requested(t) == nodeRaf + (IF t.again THEN 1 ELSE 0)

\* handlePlay in nodes mode.
NodePlay ==
  /\ visual = "nodes"
  /\ IF nodeAnim.path = <<>>
       THEN \E res \in {dijkstraNodePath(NodeSnapshot)} :
            \E t \in {startAnim(res.path, NodeSnapshot)} :
               IF res.status # "returned" \/ res.path = <<>>
                 THEN UNCHANGED <<nodeAnim, nodeRaf>>
               ELSE /\ nodeAnim' = t.v
                    /\ Requested(t) <= MaxChains
                    /\ nodeRaf' = Requested(t)
     ELSE \E t \in {_tick([nodeAnim EXCEPT !.playing = TRUE], NodeSnapshot)} :
             /\ nodeAnim' = t.v
             /\ Requested(t) <= MaxChains
             /\ nodeRaf' = Requested(t)
  /\ frozen' = NoPos
  /\ UNCHANGED oldFrames
  /\ NodeButtonFrame

\* handlePause has no branch for nodes mode.
NodePause ==
  /\ visual = "nodes"
  /\ UNCHANGED <<nodeAnim, nodeRaf>>
  /\ frozen' = IF nodeAnim.playing THEN <<nodeAnim.seg>> ELSE frozen
  /\ UNCHANGED oldFrames
  /\ NodeButtonFrame

\* handleStep in nodes mode.
NodeStep ==
  /\ visual = "nodes"
  /\ IF nodeAnim.path = <<>>
       THEN \E res \in {dijkstraNodePath(NodeSnapshot)} :
            \E t \in {startAnim(res.path, NodeSnapshot)} :
               IF res.status # "returned" \/ res.path = <<>>
                 THEN UNCHANGED <<nodeAnim, nodeRaf>>
               ELSE /\ nodeAnim' = IF t.threw THEN t.v ELSE pauseAnim(t.v)
                    /\ Requested(t) <= MaxChains
                    /\ nodeRaf' = Requested(t)
     ELSE /\ nodeAnim' = nodeStepAnim(nodeAnim)
          /\ UNCHANGED nodeRaf
  /\ frozen' = NoPos
  /\ UNCHANGED oldFrames
  /\ NodeButtonFrame

\* handleReset in nodes mode: view.resetAnim().
NodeReset ==
  /\ visual = "nodes"
  /\ nodeAnim' = NewNodeAnim
  /\ oldFrames' = nodeRaf
  /\ frozen' = NoPos
  /\ UNCHANGED nodeRaf
  /\ NodeButtonFrame

\* An animation frame of the node view: one waiting () => this._tick(),
\* requested before the last Reset (old) or after it.
NodeFrame ==
  /\ \E old \in BOOLEAN :
        /\ IF old THEN oldFrames > 0 ELSE nodeRaf > oldFrames
        /\ oldFrames' = IF old THEN oldFrames - 1 ELSE oldFrames
  /\ \E t \in {_tick(nodeAnim, NodeSnapshot)} :
        /\ nodeAnim' = t.v
        /\ nodeRaf' = nodeRaf - 1 + (IF t.again THEN 1 ELSE 0)
  /\ UNCHANGED frozen
  /\ NodeButtonFrame

CtlNext ==
  \/ Play
  \/ Pause
  \/ Step
  \/ Reset
  \/ Frame
  \/ \E x \in CellsOf(rows, cols), paintAdd \in BOOLEAN : Paint(x.r, x.c, paintAdd)
  \/ \E kind \in {"start", "end"}, x \in CellsOf(rows, cols) : Drop(kind, x.r, x.c)
  \/ ClearMaze
  \/ GenerateMaze
  \/ Resize
  \/ SwitchVisual
  \/ AddNode
  \/ \E n \in Range(nodes) : DeleteNode(n)
  \/ \E a \in Range(nodes), b \in Range(nodes) : DrawEdge(a, b)
  \/ \E i \in 1..Len(edges) : DeleteEdge(edges[i].from, edges[i].to)
  \/ \E i \in 1..Len(edges), w \in Weights : EditWeight(i, w)
  \/ \E kind \in {"start", "end"}, n \in Range(nodes) : DropOnNode(kind, n)
  \/ \E n \in Range(nodes) : ClickMarker(n)
  \/ NodePlay
  \/ NodePause
  \/ NodeStep
  \/ NodeReset
  \/ NodeFrame

CtlSpec == CtlInit /\ [][CtlNext]_vars

\* ============================================================ properties
\* ---- what the claims measure against
Adjacent(x, y) == Abs(x.r - y.r) + Abs(x.c - y.c) = 1

Manhattan(x, y) == Abs(x.r - y.r) + Abs(x.c - y.c)

\* Cells one step away from a cell of S: 4-adjacent, in bounds, not a wall.
StepInto(m, S) ==
  {x \in CellsOf(m.rows, m.cols) \ m.walls : \E y \in S : Adjacent(x, y)}

\* The length of a shortest 4-connected route from start to end, by layers
\* of a breadth-first search that owes nothing to the algorithms; -1 when
\* there is none.
RECURSIVE Layers(_, _, _)
Layers(m, seen, d) ==
  IF m.end \in seen THEN d
  ELSE LET more == seen \cup StepInto(m, seen)
       IN IF more = seen THEN -1 ELSE Layers(m, more, d + 1)

TrueDist(m) == Layers(m, {m.start}, 0)

RECURSIVE ReachFrom(_, _)
ReachFrom(m, seen) ==
  LET more == seen \cup StepInto(m, seen)
  IN IF more = seen THEN seen ELSE ReachFrom(m, more)

NoRepeat(s) == \A i, j \in 1..Len(s) : i # j => s[i] # s[j]

GridRan == visual = "maze" /\ ret.alg \in GRID_ALGS

BothSet == start # null /\ end # null

\* C1: with start and end set, every grid algorithm returns, and its path
\* has (shortest 4-connected distance + 1) cells, or none when there is no
\* route; the other three algorithms give a path of the same length on the
\* same grid.
C1_PathLengthIsShortest ==
  (GridRan /\ BothSet) =>
    /\ ret.status = "returned"
    /\ Len(ret.path) = IF TrueDist(GridSnapshot) = -1 THEN 0
                       ELSE TrueDist(GridSnapshot) + 1
    /\ \A a \in GRID_ALGS : Len(ALG(a, GridSnapshot).path) = Len(ret.path)

\* A detour: walls make the route longer than the Manhattan distance.
C1_Witness ==
  /\ GridRan /\ BothSet
  /\ ret.alg = "floydWarshall"
  /\ Len(ret.path) - 1 > Manhattan(start, end)

\* C2: with no walls the path of every grid algorithm has as many edges as
\* the Manhattan distance from start to end.
C2_NoWallsManhattan ==
  (GridRan /\ BothSet /\ walls = {}) =>
    /\ ret.status = "returned"
    /\ Len(ret.path) - 1 = Manhattan(start, end)

C2_Witness ==
  /\ GridRan /\ BothSet /\ walls = {}
  /\ ret.alg = "bellmanFord"
  /\ start.r > end.r /\ start.c > end.c
  /\ Len(ret.path) = 4

\* C3: a non-empty path goes from start to end by 4-adjacent in-bounds
\* cells, repeats no cell, and no cell after the first is a wall.
C3_PathIsRoute ==
  (GridRan /\ ret.path # <<>>) =>
    /\ ret.path[1] = start
    /\ ret.path[Len(ret.path)] = end
    /\ \A i \in 1..Len(ret.path) : ret.path[i] \in CellsOf(rows, cols)
    /\ \A i \in 1..(Len(ret.path) - 1) : Adjacent(ret.path[i], ret.path[i + 1])
    /\ NoRepeat(ret.path)
    /\ \A i \in 2..Len(ret.path) : ret.path[i] \notin walls

C3_Witness ==
  /\ GridRan
  /\ ret.alg = "astar"
  /\ Len(ret.path) >= 4
  /\ start \in walls
  /\ Cardinality(walls) >= 2

\* C4: start and end distinct and open, and no route between them: empty
\* path and no branches.
C4_BlockedIsEmpty ==
  (GridRan /\ BothSet /\ start # end /\ start \notin walls /\ end \notin walls
     /\ TrueDist(GridSnapshot) = -1) =>
    /\ ret.status = "returned"
    /\ ret.path = <<>>
    /\ ret.branches = <<>>

\* Blocked, though the search explored cells around start.
C4_Witness ==
  /\ GridRan /\ BothSet /\ start # end /\ start \notin walls /\ end \notin walls
  /\ TrueDist(GridSnapshot) = -1
  /\ ret.alg = "bellmanFord"
  /\ Cardinality(ReachFrom(GridSnapshot, {start})) >= 3

\* C5 as stated: start = end gives the one-point path, and the four grid
\* algorithms give no branches.
C5_Original ==
  /\ (GridRan /\ start # null /\ start = end) =>
       /\ ret.status = "returned"
       /\ ret.path = <<start>>
       /\ ret.branches = <<>>
  /\ (visual = "nodes" /\ ret.alg \in NODE_ALGS /\ nodeStart # noId /\ nodeStart = goal) =>
       /\ ret.status = "returned"
       /\ ret.path = <<nodeStart>>

\* C5 amended: start = end gives the one-point path from every algorithm;
\* Dijkstra and A* give no branches; Bellman-Ford gives one branch for each
\* other cell it can reach from start, and Floyd-Warshall gives branches
\* exactly when some cell lies two or more steps from start.
C5_SamePointPath ==
  /\ (GridRan /\ start # null /\ start = end) =>
       /\ ret.status = "returned"
       /\ ret.path = <<start>>
       /\ ret.alg \in {"dijkstra", "astar"} => ret.branches = <<>>
       /\ ret.alg = "bellmanFord" =>
            Len(ret.branches) = Cardinality(ReachFrom(GridSnapshot, {start}) \ {start})
       /\ ret.alg = "floydWarshall" =>
            (ret.branches = <<>> <=>
               ReachFrom(GridSnapshot, {start}) \subseteq {start} \cup StepInto(GridSnapshot, {start}))
  /\ (visual = "nodes" /\ ret.alg \in NODE_ALGS /\ nodeStart # noId /\ nodeStart = goal) =>
       /\ ret.status = "returned"
       /\ ret.path = <<nodeStart>>

C5_Witness ==
  /\ GridRan /\ start # null /\ start = end
  /\ ret.alg = "bellmanFord"
  /\ ret.path = <<start>>
  /\ Len(ret.branches) >= 2

\* C6 as stated: a wall on the start cell or on the end cell (start # end)
\* gives an empty path and no branches.
C6_Original ==
  (GridRan /\ BothSet /\ start # end /\ (start \in walls \/ end \in walls)) =>
    /\ ret.status = "returned"
    /\ ret.path = <<>>
    /\ ret.branches = <<>>

\* C6 amended: a wall on the end cell (start # end) gives an empty path and
\* no branches, without throwing; a wall on the start cell does not: the
\* search leaves it as it leaves an open cell, and the path has the length
\* it has with the start cell open.
C6_WalledEndIsEmpty ==
  /\ (GridRan /\ BothSet /\ start # end /\ end \in walls) =>
       /\ ret.status = "returned"
       /\ ret.path = <<>>
       /\ ret.branches = <<>>
  /\ (GridRan /\ BothSet /\ start \in walls) =>
       /\ ret.status = "returned"
       /\ Len(ret.path) =
            Len(ALG(ret.alg, [GridSnapshot EXCEPT !.walls = @ \ {start}]).path)

\* Stronger, and true of every grid within the bounds: with a wall on the
\* start cell the call returns the very path and branches it returns with
\* the start cell open.
WalledStartIsIgnored ==
  (GridRan /\ BothSet /\ start \in walls) =>
    LET open == ALG(ret.alg, [GridSnapshot EXCEPT !.walls = @ \ {start}])
    IN ret.path = open.path /\ ret.branches = open.branches

C6_Witness ==
  /\ GridRan /\ BothSet /\ start # end
  /\ end \in walls /\ start \notin walls
  /\ ret.alg = "floydWarshall"
  /\ ret.isWallCalls > 0

\* C7: start or end unset: the call returns {path: [], branches: []}
\* without throwing and without one isWall call.
C7_UnsetIsEmpty ==
  (GridRan /\ ~BothSet) =>
    /\ ret.status = "returned"
    /\ ret.path = <<>>
    /\ ret.branches = <<>>
    /\ ret.isWallCalls = 0

C7_Witness ==
  /\ GridRan
  /\ ret.alg = "floydWarshall"
  /\ start # null /\ end = null
  /\ walls # {}

\* C8: every branch begins with start, has at most rows*cols cells and
\* repeats no cell, and no walk of predecessors or next-hops fails to end.
C8_BranchesReachStart ==
  GridRan =>
    /\ ret.status # "hung"
    /\ \A i \in 1..Len(ret.branches) :
         /\ ret.branches[i] # <<>>
         /\ ret.branches[i][1] = start
         /\ Len(ret.branches[i]) <= rows * cols
         /\ NoRepeat(ret.branches[i])

C8_Witness ==
  /\ GridRan
  /\ ret.alg = "dijkstra"
  /\ \E i \in 1..Len(ret.branches) : Len(ret.branches[i]) >= 3

\* ---- node graphs
IsEdge(a, b) == \E i \in 1..Len(edges) : edges[i].from = a /\ edges[i].to = b

EdgeW(a, b) == (CHOOSE e \in Range(edges) : e.from = a /\ e.to = b).w

RECURSIVE NodeReach(_)
NodeReach(seen) ==
  LET more == seen \cup {edges[i].to : i \in {k \in 1..Len(edges) : edges[k].from \in seen}}
  IN IF more = seen THEN seen ELSE NodeReach(more)

GoalReachable == goal \in NodeReach({nodeStart})

\* The fewest edges from start to goal, by layers.
RECURSIVE HopLayers(_, _)
HopLayers(seen, d) ==
  IF goal \in seen THEN d
  ELSE LET more == seen \cup {edges[i].to : i \in {k \in 1..Len(edges) : edges[k].from \in seen}}
       IN IF more = seen THEN -1 ELSE HopLayers(more, d + 1)

MinHops == HopLayers({nodeStart}, 0)

\* The least total weight from start to each id, by relaxing every edge
\* until nothing changes (weights are positive, so this ends).
RECURSIVE Settle(_)
Settle(d) ==
  LET better == [x \in DOMAIN d |->
                   LET via == {d[edges[i].from] + edges[i].w :
                                 i \in {k \in 1..Len(edges) :
                                          edges[k].to = x /\ d[edges[k].from] # INF}}
                       all == via \cup {d[x]}
                   IN CHOOSE v \in all : \A v2 \in all : v <= v2]
  IN IF better = d THEN d ELSE Settle(better)

MinWeight ==
  Settle([x \in IdsOf(NodeSnapshot) |-> IF x = nodeStart THEN 0 ELSE INF])[goal]

RECURSIVE PathWeight(_)
PathWeight(p) ==
  IF Len(p) <= 1 THEN 0 ELSE EdgeW(p[1], p[2]) + PathWeight(Tail(p))

IsDirectedPath(p) ==
  /\ p # <<>>
  /\ p[1] = nodeStart
  /\ p[Len(p)] = goal
  /\ \A i \in 1..(Len(p) - 1) : IsEdge(p[i], p[i + 1])

NodeRan(alg) == visual = "nodes" /\ ret.alg = alg /\ nodeStart # noId /\ goal # noId

\* C9: with start and goal set, dijkstraNodePath returns a start-to-goal
\* path of least total weight, and [] exactly when goal cannot be reached.
C9_DijkstraLeastWeight ==
  NodeRan("dijkstraNode") =>
    /\ ret.status = "returned"
    /\ (ret.path = <<>>) <=> ~GoalReachable
    /\ ret.path # <<>> =>
         /\ IsDirectedPath(ret.path)
         /\ PathWeight(ret.path) = MinWeight

\* The same on the models whose start marker is on a node of the list.
DijkstraLeastWeightOnNodes ==
  (NodeRan("dijkstraNode") /\ nodeStart \in Range(nodes)) =>
    /\ ret.status = "returned"
    /\ (ret.path = <<>>) <=> ~GoalReachable
    /\ ret.path # <<>> =>
         /\ IsDirectedPath(ret.path)
         /\ PathWeight(ret.path) = MinWeight

\* The example: A->B 5, A->C 1, C->B 1 gives [A, C, B].
DijkstraExample ==
  (NodeRan("dijkstraNode") /\ nodeStart = "A" /\ goal = "B"
     /\ Range(edges) = {[from |-> "A", to |-> "B", w |-> HeavyW],
                        [from |-> "A", to |-> "C", w |-> DefaultW],
                        [from |-> "C", to |-> "B", w |-> DefaultW]}) =>
    ret.path = <<"A", "C", "B">>

\* C10: with start and goal set, bfsNodePath returns a directed start-to-goal
\* path with the fewest edges, and [] exactly when goal cannot be reached.
C10_BfsFewestEdges ==
  NodeRan("bfs") =>
    /\ ret.status = "returned"
    /\ (ret.path = <<>>) <=> ~GoalReachable
    /\ ret.path # <<>> =>
         /\ IsDirectedPath(ret.path)
         /\ Len(ret.path) - 1 = MinHops

\* A two-edge path found although the heavy direct-looking route exists.
C10_Witness ==
  /\ NodeRan("bfs")
  /\ Len(ret.path) = 3
  /\ Len(edges) = 3

\* C11: with start and goal set, dfsNodePath returns a non-empty path exactly
\* when goal can be reached from start along directed edges, and a non-empty
\* path goes from start to goal along existing edges and repeats no node.
C11_DfsFindsSimplePath ==
  NodeRan("dfs") =>
    /\ ret.status = "returned"
    /\ (ret.path # <<>>) <=> GoalReachable
    /\ ret.path # <<>> =>
         /\ IsDirectedPath(ret.path)
         /\ NoRepeat(ret.path)

\* A path of three nodes found in a graph with an edge back into start, so
\* that a walk could repeat a node.
C11_Witness ==
  /\ NodeRan("dfs")
  /\ Len(ret.path) = 3
  /\ \E i \in 1..Len(edges) : edges[i].to = nodeStart

\* C12: whatever add, remove, addEdge, removeEdge, setMarker and clearMarker
\* have done to the model, each of the three node-graph algorithms returns
\* without throwing, and returns [] when start or goal is unset or goal
\* cannot be reached from start.
C12_NodeAlgsNeverThrow ==
  (visual = "nodes" /\ ret.alg \in NODE_ALGS) =>
    /\ ret.status = "returned"
    /\ (nodeStart = noId \/ goal = noId \/ ~GoalReachable) => ret.path = <<>>

\* The two algorithms that test for a missing node do return, and return []
\* in those cases.
BfsDfsNeverThrow ==
  (visual = "nodes" /\ ret.alg \in {"bfs", "dfs"}) =>
    /\ ret.status = "returned"
    /\ (nodeStart = noId \/ goal = noId \/ ~GoalReachable) => ret.path = <<>>

\* ---- the playback controller
Least(a, b) == IF a < b THEN a ELSE b

\* C13: Play on a freshly computed non-empty path, and nothing but frames
\* since: the cursor is min(floor(elapsed / msPerStep), length - 1), elapsed
\* being the time the frames have brought to tick; n frames of msPerStep
\* each put it at min(n, length - 1).
C13_CursorFollowsClock ==
  (visual = "maze" /\ pos0 = <<0>> /\ anim.path # <<>>) =>
    anim.pos = Least(elapsed \div anim.msPerStep, Len(anim.path) - 1)

\* A path of three cells played to its end by frames that brought more time
\* than the path takes, one of them two steps' worth at once.
C13_Witness ==
  /\ visual = "maze"
  /\ pos0 = <<0>>
  /\ Len(anim.path) = 3
  /\ anim.pos = 2
  /\ anim.msPerStep = 1
  /\ elapsed = 3

\* The controller's idle state, of the grid and of the node view.
Idle ==
  /\ anim.path = <<>>
  /\ anim.branches = <<>>
  /\ anim.pos = 0
  /\ ~anim.playing

NodeIdle == nodeAnim = NewNodeAnim

\* C14: Reset yields Idle from every state, path and branches empty, cursor
\* 0, clock not running, and no frame requested before the Reset changes the
\* state afterwards: in maze mode none is left waiting, in nodes mode one
\* that is left waiting finds the state as it leaves it.
C14_ResetYieldsIdle ==
  [][/\ Reset => (Idle' /\ rafQueue' = {})
     /\ NodeReset => NodeIdle'
     /\ (NodeFrame /\ oldFrames' < oldFrames) => nodeAnim' = nodeAnim]_vars

\* The maze half of it: clearAnim cancels the one frame that waits.
GridResetYieldsIdle == [][Reset => (Idle' /\ rafQueue' = {})]_vars

\* The nodes half of it, up to the frames: resetAnim puts the empty
\* animation in place.
NodeResetYieldsIdle == [][NodeReset => NodeIdle']_vars

\* Reset pressed while the grid animation plays, a frame waiting.
GridResetWitness == visual = "maze" /\ anim.playing /\ anim.pos = 1 /\ rafQueue # {}

\* An edit of the walls, and the move of a marker.
WallEdit ==
  \/ \E x \in CellsOf(rows, cols), paintAdd \in BOOLEAN : Paint(x.r, x.c, paintAdd)
  \/ ClearMaze
  \/ GenerateMaze

MarkerMove ==
  /\ \E kind \in {"start", "end"}, x \in CellsOf(rows, cols) : Drop(kind, x.r, x.c)
  /\ <<start, end>>' # <<start, end>>

\* C15: every edit of the grid model (a wall added or removed, the walls
\* cleared, a random maze, the start or end marker moved) leaves the
\* controller Idle, the cached path and branches gone, the cursor 0, the
\* clock stopped.
C15_EditsResetPlayback ==
  [][(WallEdit \/ MarkerMove) => (Idle' /\ rafQueue' = {})]_vars

\* The edits of the walls do.
WallEditsResetPlayback == [][WallEdit => (Idle' /\ rafQueue' = {})]_vars

\* Every branch cursor is where the main cursor is, or at its branch's end.
BranchesFollow(a) ==
  \A i \in 1..Len(a.branches) :
    a.branches[i].pos = Least(a.pos, Len(a.branches[i].path) - 1)

\* Some branch cursor moves forward in the step.
BranchAdvances ==
  /\ Len(anim'.branches) = Len(anim.branches)
  /\ \E i \in 1..Len(anim.branches) : anim'.branches[i].pos > anim.branches[i].pos

\* C16: in every state of the grid controller each branch cursor equals
\* min(main cursor, branch length - 1), and no branch cursor advances in a
\* step in which the main cursor does not.
C16_BranchesInLockStep ==
  /\ [](visual = "maze" => BranchesFollow(anim))
  /\ [][BranchAdvances => anim'.pos > anim.pos]_vars

\* Under the clock alone they do follow: a frame leaves the cursors in
\* lock-step when it finds them so.
TickKeepsLockStep == [][(Frame /\ BranchesFollow(anim)) => BranchesFollow(anim')]_vars

\* The cursor at the last index of a path, the clock stopped.
Finished ==
  /\ anim.path # <<>>
  /\ anim.pos = Len(anim.path) - 1
  /\ ~anim.playing

\* C17: Play pressed while the grid controller is Playing or Finished
\* changes neither the cursor, nor a branch cursor, nor the playing flag,
\* nor the set of frames that wait.
C17_PlayIsNoOp ==
  [][((anim.playing \/ Finished) /\ Play) =>
       /\ Cursors(anim') = Cursors(anim)
       /\ anim'.playing = anim.playing
       /\ rafQueue' = rafQueue]_vars

\* While a path is being played it is: startRAF returns at once.
PlayWhilePlayingIsNoOp ==
  [][(anim.playing /\ anim.path # <<>> /\ Play) => UNCHANGED <<anim, rafQueue>>]_vars

\* C18: after Pause pressed on a playing animation, in maze mode and in
\* nodes mode, the cursors stay as they were at the Pause until the next
\* Play or Step, whatever frames come; Pause pressed in any other state
\* changes nothing.
C18_PauseFreezes ==
  /\ [](frozen # NoPos =>
          frozen[1] = IF visual = "maze" THEN Cursors(anim) ELSE nodeAnim.seg)
  /\ [][(~anim.playing /\ Pause) => UNCHANGED <<anim, rafQueue>>]_vars
  /\ [][(~nodeAnim.playing /\ NodePause) => UNCHANGED <<nodeAnim, nodeRaf>>]_vars

\* In maze mode it is so: handlePause clears the flag and cancels the frame.
GridPauseFreezes ==
  /\ [](visual = "maze" =>
          /\ frozen # NoPos => frozen[1] = Cursors(anim)
          /\ ~anim.playing => \A cb \in rafQueue : ~cb.live)
  /\ [][(~anim.playing /\ Pause) => UNCHANGED <<anim, rafQueue>>]_vars

\* The clock of the grid is not running: the flag is down and no frame of
\* animRef.current waits.
ClockStopped(a, q) == ~a.playing /\ \A cb \in q : ~cb.live

\* C19: Step from Idle computes the result and leaves the cursor at
\* min(1, length - 1) (at 0 when the result is the empty path); Step from
\* Paused moves the cursor on by one, or changes no cursor when it is at the
\* last index; after every Step the clock is not running.
C19_StepAdvancesOne ==
  [][Step =>
       /\ ClockStopped(anim', rafQueue')
       /\ (Idle /\ calls' > calls) =>
            anim'.pos = IF anim'.path = <<>> THEN 0
                        ELSE Least(1, Len(anim'.path) - 1)
       /\ (anim.path # <<>> /\ ~anim.playing) =>
            IF anim.pos < Len(anim.path) - 1
              THEN anim'.pos = anim.pos + 1
            ELSE Cursors(anim') = Cursors(anim)]_vars

\* The same with the last case said of the main cursor alone.
StepAdvancesMainByOne ==
  [][Step =>
       /\ ClockStopped(anim', rafQueue')
       /\ (Idle /\ calls' > calls) =>
            anim'.pos = IF anim'.path = <<>> THEN 0
                        ELSE Least(1, Len(anim'.path) - 1)
       /\ (anim.path # <<>> /\ ~anim.playing) =>
            anim'.pos = Least(anim.pos + 1, Len(anim.path) - 1)]_vars

\* C20: between two consecutive resets or edits the grid algorithm is
\* invoked at most once, however often Play and Step are pressed, and
\* whether or not the result is the empty path.
C20_InvokedAtMostOnce == visual = "maze" => calls <= 1

\* A non-empty cached path is not computed again.
NonEmptyResultIsCached ==
  [][(anim.path # <<>> /\ (Play \/ Step)) => calls' = calls]_vars

\* ---- the models under the application's edits
\* C21: whatever painting, erasing, dropping the markers, generating a maze
\* and clearing have done to the grid, when Play or Step invokes an
\* algorithm the start cell and the end cell, if set, are not walls. calls
\* above 0 says that an algorithm has been invoked on the model as it is.
C21_MarkersAreNotWalls ==
  (visual = "maze" /\ calls > 0) =>
    /\ start # null => start \notin walls
    /\ end # null => end \notin walls

\* Generate maze and Clear do leave the marked cells open.
MazeButtonsSpareMarkers ==
  [][(GenerateMaze \/ ClearMaze) =>
       /\ start' # null => start' \notin walls'
       /\ end' # null => end' \notin walls']_vars

\* Every edge runs between two nodes of the node list.
EdgesJoinNodes ==
  \A i \in 1..Len(edges) :
    edges[i].from \in Range(nodes) /\ edges[i].to \in Range(nodes)

Last(s) == s[Len(s)]

\* C23: floydWarsShortestPath returns one branch for each cell whose
\* distance from start improved and that is off the final path: no two of
\* the returned branches end at the same cell.
C23_OneBranchPerDestination ==
  (GridRan /\ ret.alg = "floydWarshall" /\ ret.status = "returned") =>
    \A i, j \in 1..Len(ret.branches) :
      i # j => Last(ret.branches[i]) # Last(ret.branches[j])

\* Each branch does end at a cell off the path.
FloydBranchesEndOffPath ==
  (GridRan /\ ret.alg = "floydWarshall" /\ ret.status = "returned") =>
    \A i \in 1..Len(ret.branches) : Last(ret.branches[i]) \notin Range(ret.path)

\* ---- the algorithms as functions of the model
\* The same algorithm, the same outcome, the same path and branch list.
SameResult(a, b) ==
  /\ a.alg = b.alg
  /\ a.status = b.status
  /\ a.path = b.path
  /\ a.branches = b.branches

IsBranchRoute(b, path) ==
  /\ \A i \in 1..(Len(b) - 1) : Adjacent(b[i], b[i + 1])
  /\ Last(b) \notin Range(path)

\* C25: every branch returned by one of the four grid algorithms is a
\* contiguous route, each cell 4-adjacent to the next, that ends at a cell
\* off the returned path; Floyd-Warshall branches through cell (0,0)
\* included.
C25_BranchesAreRoutes ==
  (GridRan /\ ret.status = "returned") =>
    \A i \in 1..Len(ret.branches) : IsBranchRoute(ret.branches[i], ret.path)

\* The branches of Dijkstra, A* and Bellman-Ford are.
PrevBranchesAreRoutes ==
  (GridRan /\ ret.status = "returned" /\ ret.alg # "floydWarshall") =>
    \A i \in 1..Len(ret.branches) : IsBranchRoute(ret.branches[i], ret.path)

\* So are those of Floyd-Warshall when no way from start leads through cell
\* (0,0): start is that cell, or the cell is a wall.
FloydBranchesOffOriginAreRoutes ==
  (GridRan /\ ret.status = "returned" /\ ret.alg = "floydWarshall"
     /\ (start = Cell(0, 0) \/ Cell(0, 0) \in walls)) =>
    \A i \in 1..Len(ret.branches) : IsBranchRoute(ret.branches[i], ret.path)

\* ------------------------------------------------------------------ C26
\* The popped list of the two frontier searches on model m, in pop order.
PoppedOf(alg, m) ==
  IF m.start = null \/ m.end = null THEN <<>>
  ELSE IF alg = "dijkstra" THEN DijLoop(m, DijInit(m)).popped
  ELSE AStarLoop(m, AStarInit(m)).popped

NoRepeats(s) == \A i, j \in 1..Len(s) : i # j => s[i] # s[j]

OffPath(list, path) == SelectSeq(list, LAMBDA x : x \notin Range(path))

\* The branches answer, one to one and in order, the listed cells off the
\* path: branch i ends at the i-th such cell.
BranchesMatch(branches, list, path) ==
  /\ Len(branches) = Len(OffPath(list, path))
  /\ \A i \in 1..Len(branches) : Last(branches[i]) = OffPath(list, path)[i]

\* C26: in dijShortestPath and aStarShortestPath no cell is popped from
\* the frontier more than once, the last popped cell is the end cell when
\* a path is found, the branches are in one-to-one correspondence, in pop
\* order, with the popped cells off the final path, and no branch is longer
\* than the final path.
C26_PoppedOnce ==
  (GridRan /\ ret.alg \in {"dijkstra", "astar"} /\ ret.status = "returned") =>
    \E popped \in {PoppedOf(ret.alg, GridSnapshot)} :
      /\ NoRepeats(popped)
      /\ ret.path # <<>> =>
           /\ Last(popped) = end
           /\ BranchesMatch(ret.branches, popped, ret.path)
           /\ \A i \in 1..Len(ret.branches) :
                Len(ret.branches[i]) <= Len(ret.path)

\* The parts of C26, one algorithm and one sentence at a time.
DijPoppedOnce ==
  (GridRan /\ ret.alg = "dijkstra" /\ ret.status = "returned") =>
    NoRepeats(PoppedOf("dijkstra", GridSnapshot))

AStarPoppedOnce ==
  (GridRan /\ ret.alg = "astar" /\ ret.status = "returned") =>
    NoRepeats(PoppedOf("astar", GridSnapshot))

LastPoppedIsEnd ==
  (GridRan /\ ret.alg \in {"dijkstra", "astar"} /\ ret.status = "returned"
     /\ ret.path # <<>>) =>
    Last(PoppedOf(ret.alg, GridSnapshot)) = end

BranchesFollowPops ==
  (GridRan /\ ret.alg \in {"dijkstra", "astar"} /\ ret.status = "returned"
     /\ ret.path # <<>>) =>
    BranchesMatch(ret.branches, PoppedOf(ret.alg, GridSnapshot), ret.path)

NoBranchLongerThanPath ==
  (GridRan /\ ret.alg \in {"dijkstra", "astar"} /\ ret.status = "returned"
     /\ ret.path # <<>>) =>
    \A i \in 1..Len(ret.branches) : Len(ret.branches[i]) <= Len(ret.path)

C26_Witness ==
  /\ GridRan /\ ret.alg = "astar" /\ ret.status = "returned"
  /\ Len(ret.path) >= 3
  /\ Len(ret.branches) >= 2
  /\ Len(PoppedOf("astar", GridSnapshot)) = Len(ret.path) + Len(ret.branches)

\* ------------------------------------------------------------------ C27
\* C27: in nodes mode, under any interleaving of Play, Pause, Step and
\* Reset presses with animation frames, at most one NodeView._tick callback
\* is pending at any time.
C27_OneTickPending == visual = "nodes" => nodeRaf <= 1

\* Its consequence for the cursor: between two frames the presses of Play
\* add no progress. Play on a shown path calls _tick itself, so each press
\* adds one increment more.
PlayAddsNoProgress ==
  [][(visual = "nodes" /\ nodeAnim.path # <<>> /\ nodeAnim.playing /\ NodePlay) =>
       /\ nodeAnim'.progress = nodeAnim.progress
       /\ nodeAnim'.seg = nodeAnim.seg]_vars

\* A single press of Play on an idle view does start exactly one chain.
FirstPlayStartsOneChain ==
  [][(visual = "nodes" /\ nodeRaf = 0 /\ NodePlay) => nodeRaf' <= 1]_vars

\* ------------------------------------------------------------------ C28
InBoundsOf(pos, path) == 0 <= pos /\ pos <= Len(path) - 1

GridCursorsInBounds ==
  (visual = "maze" /\ anim.path # <<>>) =>
    /\ InBoundsOf(anim.pos, anim.path)
    /\ \A i \in 1..Len(anim.branches) :
         InBoundsOf(anim.branches[i].pos, anim.branches[i].path)

NodeCursorInBounds ==
  (visual = "nodes" /\ nodeAnim.path # <<>>) => InBoundsOf(nodeAnim.seg, nodeAnim.path)

\* C28: in every reachable state of the grid controller with a non-empty
\* cached path, 0 <= pos <= len(path) - 1 and, for every branch,
\* 0 <= branch.pos <= len(branch.path) - 1; in every reachable state of the
\* node-graph animation with a non-empty path, 0 <= seg <= len(path) - 1
\* at every draw.
C28_CursorsInBounds == GridCursorsInBounds /\ NodeCursorInBounds

\* Step was pressed with the main cursor and a branch cursor on their last
\* cells, and both stayed there.
C28_Witness ==
  /\ visual = "maze"
  /\ Len(anim.path) >= 2 /\ anim.pos = Len(anim.path) - 1
  /\ ~anim.playing /\ pos0 = NoPos /\ frozen = NoPos /\ calls = 1
  /\ \E i \in 1..Len(anim.branches) :
       /\ Len(anim.branches[i].path) >= 2
       /\ anim.branches[i].pos = Len(anim.branches[i].path) - 1
       /\ Len(anim.branches[i].path) < Len(anim.path)

\* The node cursor on the last node of a path of two or more nodes.
NodeCursorAtEnd ==
  /\ visual = "nodes"
  /\ Len(nodeAnim.path) >= 2 /\ nodeAnim.seg = Len(nodeAnim.path) - 1

\* ------------------------------------------------------------------ C29
\* Play has started the clock and no button was pressed and no edit made
\* since (each of them clears pos0).
PlayStarted == visual = "maze" /\ pos0 # NoPos

\* The grid controller left alone once Play has started the clock: the
\* user acts only before, the animation frames come at all times.
PlayNext ==
  \/ PlayStarted = FALSE /\ Play
  \/ PlayStarted = FALSE /\ Pause
  \/ PlayStarted = FALSE /\ Step
  \/ PlayStarted = FALSE /\ Reset
  \/ \E x \in CellsOf(rows, cols), paintAdd \in BOOLEAN :
       PlayStarted = FALSE /\ Paint(x.r, x.c, paintAdd)
  \/ \E kind \in {"start", "end"}, x \in CellsOf(rows, cols) :
       PlayStarted = FALSE /\ Drop(kind, x.r, x.c)
  \/ PlayStarted = FALSE /\ ClearMaze
  \/ PlayStarted = FALSE /\ GenerateMaze
  \/ PlayStarted = FALSE /\ Resize
  \/ Frame

\* requestAnimationFrame: the browser runs a requested callback before its
\* next repaint, so a frame that waits does not wait for ever.
PlaySpec == CtlInit /\ [][PlayNext]_vars /\ WF_vars(Frame)

\* The clock has stopped with the cursor on the last cell of the path, if
\* there is a path.
StoppedAtEnd ==
  /\ ClockStopped(anim, rafQueue)
  /\ anim.path # <<>> => anim.pos = Len(anim.path) - 1

\* A clock on an empty path has had no callback yet: the first one stops it.
EmptyPathStopsAtFirstFrame ==
  (visual = "maze" /\ anim.playing /\ anim.path = <<>>) => anim.lastTs = NoTs

\* C29: once Play has started the clock, if clock callbacks keep firing and
\* no other user action occurs, the grid controller eventually stops the
\* clock with the cursor at len(path) - 1 and stays there; when the computed
\* path is empty the clock stops after the first callback.
C29_PlayRunsToEnd ==
  /\ [](PlayStarted => <>[]StoppedAtEnd)
  /\ []EmptyPathStopsAtFirstFrame

\* The clock ran over a path of three cells or more and stopped on the last.
C29_Witness ==
  /\ PlayStarted /\ Finished /\ rafQueue = {}
  /\ Len(anim.path) >= 3 /\ elapsed >= 2

\* ------------------------------------------------------------------ C30
\* The controller shows the path and the branches of result res.
ShownIs(a, res) ==
  /\ a.path = res.path
  /\ [i \in 1..Len(a.branches) |-> a.branches[i].path] = res.branches

\* C30: after the user changes the selected grid algorithm, the path and
\* branches shown by the next Play or Step are the result of the newly
\* selected algorithm on the current model: a result cached for another
\* algorithm is never played under the new selection.
C30_ShownFollowsSelection ==
  [][\A alg \in GRID_ALGS :
       (visual = "maze" /\ (PlayWith(alg) \/ StepWith(alg))) =>
         \E res \in {ALG(alg, GridSnapshot)} :
            res.status = "returned" => ShownIs(anim', res)]_vars

\* With nothing cached it is so: computeIfNeeded invokes ALG[alg].
FreshPlayShowsSelected ==
  [][\A alg \in GRID_ALGS :
       (visual = "maze" /\ anim.path = <<>> /\ (PlayWith(alg) \/ StepWith(alg))) =>
         \E res \in {ALG(alg, GridSnapshot)} :
            res.status = "returned" => ShownIs(anim', res)]_vars

====
